---------------------------- MODULE Spec2Model ----------------------------
(***************************************************************************)
(* A model of the hypercube signature library: the layer-size counter and  *)
(* the rank/unrank bijection (core/mapping.rs, core/layer.rs), the WOTS    *)
(* chain engine (wots/mod.rs), the encoders (schemes/*.rs) and the XMSS    *)
(* signer (xmss/*.rs).                                                     *)
(*                                                                         *)
(* Rust values are modelled as follows.  A usize or BigUint is an integer; *)
(* a Vec<u8> is a sequence of bytes 0..255; a Vec<usize> is a sequence of  *)
(* integers; Result<T, E> is a record [ok, val, err]; Option<T> is a       *)
(* record [some, val]; a panic is the outcome "panic" of the call.         *)
(***************************************************************************)
EXTENDS Integers, Sequences, FiniteSets, TLC

VARIABLES
    hw,        \* Hypercube.w / the w argument of the mapping functions
    hv,        \* Hypercube.v / the v argument of the mapping functions
    pc,        \* the operation of the mapping harness that acted last
    argD,      \* the layer argument d of the last call
    argInt,    \* the integer argument x of the last integer_to_vertex call
    argVtx,    \* the vertex argument of the last vertex_to_integer call
    resVtx,    \* Result<Vec<usize>, MappingError> of integer_to_vertex
    resInt,    \* Result<usize, MappingError> / integer result of the last call
    resCount,  \* the count the last enumeration produced
    wparams,   \* WotsParams { w, chains } of the WOTS key under test
    wkey,      \* WotsKeypair: [sk, pk], each a sequence of chain values
    wenc,      \* the encoder that emits the digits: [kind, w, v, d0, c]
    wmsg,      \* the (message, randomness) the encoder was given
    wdigits,   \* the digit vector handed to sign_raw and verify
    wsig,      \* outcome of sign_raw: [kind |-> "ok" | "panic", chains]
    wverdict,  \* the bool verify returned
    wclaimed,  \* the digit vector a verifier was given in place of the signed one
    wchain,    \* the last hash_chain calls: input, a, b and the values returned
    wpc,       \* the operation of the WOTS harness that acted last
    xparams,   \* XMSSParams { tree_height, winternitz_parameter, len, use_hypercube }
    signers,   \* the XMSSKeypair values derived from one key generation
    xsaved,    \* the XMSSPrivateKeyState values the caller holds
    xused,     \* history: the (leaf index, message, signature) triples issued
    xcalls,    \* history: per signer, how it was made, its sign calls and those that succeeded
    xlast,     \* the sign call just made: signer, index before it, message, outcome
    xverdict,  \* the bool returned when the call just made was verify
    xpc,       \* the operation of the XMSS harness that acted last
    mtree,     \* a MerkleTree with the leaves and public seed it was built from
    tcall,     \* the last path call: leaf index, AuthPath nodes, roots computed
    tpc,       \* the operation of the tree harness that acted last
    ecfg,      \* the encoder instance under test: [kind, w, v, d0, c]
    ecall,     \* the last encoder call: its arguments and what it returned
    epc,       \* the operation of the encoder harness that acted last
    sobj,      \* the XMSSSignature object the caller holds
    scall,     \* the last call on it: its arguments and what it returned
    spc        \* the operation of the signature harness that acted last

mapVars == <<hw, hv, pc, argD, argInt, argVtx, resVtx, resInt, resCount>>

wotsVars == <<wparams, wkey, wenc, wmsg, wdigits, wsig, wverdict, wclaimed, wchain, wpc>>

xmssVars == <<xparams, signers, xsaved, xused, xcalls, xlast, xverdict, xpc>>

treeVars == <<mtree, tcall, tpc>>

encVars == <<ecfg, ecall, epc>>

sigVars == <<sobj, scall, spc>>

vars == <<mapVars, wotsVars, xmssVars, treeVars, encVars, sigVars>>

-----------------------------------------------------------------------------
(* Bounds of the model *)

MaxW == 4
MaxV == 4
MaxChains == 2
MaxKeys == 2
MaxMsg == 1
MaxH == 1
MaxSigners == 2
MaxExhausted == 2
MaxSaved == 1
MaxSeeds == 1
MaxTreeH == 3
MaxZ == 6
MaxEncMsg == 3
MaxPairW == 3

-----------------------------------------------------------------------------
(* Rust values *)

Ok(x) == [ok |-> TRUE, val |-> x, err |-> "none"]

ErrVtx(e) == [ok |-> FALSE, val |-> <<>>, err |-> e]

ErrInt(e) == [ok |-> FALSE, val |-> 0, err |-> e]

Min(a, b) == IF a < b THEN a ELSE b

\* BigUint::to_usize: Some(x) when x < 2^64.  2^64 is written as four
\* 16-bit shifts so that the test itself stays inside the checker's integers.
ToUsize(x) ==
    [some |-> ((((x \div 65536) \div 65536) \div 65536) \div 65536) = 0, val |-> x]

RECURSIVE SumSeq(_)
SumSeq(s) == IF s = <<>> THEN 0 ELSE Head(s) + SumSeq(Tail(s))

RECURSIVE Pow(_, _)
Pow(b, e) == IF e = 0 THEN 1 ELSE b * Pow(b, e - 1)

-----------------------------------------------------------------------------
(* core/mapping.rs: binomial_coefficient and calculate_layer_size *)

\* the loop `for i in 0..k { result = result * (n - i) / (i + 1) }`
RECURSIVE BinomialLoop(_, _, _, _)
BinomialLoop(result, n, k, i) ==
    IF i >= k THEN result
    ELSE BinomialLoop((result * (n - i)) \div (i + 1), n, k, i + 1)

binomial_coefficient(n, k) ==
    IF k > n THEN 0
    ELSE IF k = 0 \/ k = n THEN 1
    ELSE BinomialLoop(1, n, Min(k, n - k), 0)

\* one pass of `for s in 0..=max_s` with the running sum
RECURSIVE LayerSizeLoop(_, _, _, _, _, _)
LayerSizeLoop(sum, s, max_s, d, v, w) ==
    IF s > max_s THEN sum
    ELSE
      LET binom_v_s == binomial_coefficient(v, s)
          inner_arg == d + v - 1 - s * w
          binom_inner == IF inner_arg >= v - 1
                         THEN binomial_coefficient(inner_arg, v - 1)
                         ELSE 0
          term == binom_v_s * binom_inner
          next == IF s % 2 = 0 THEN sum + term
                  ELSE IF sum >= term THEN sum - term ELSE 0
      IN  LayerSizeLoop(next, s + 1, max_s, d, v, w)

\* calculate_layer_size never returns Err: the model returns the BigUint.
calculate_layer_size(d, v, w) ==
    IF v = 0 THEN (IF d = 0 THEN 1 ELSE 0)
    ELSE IF d > v * (w - 1) THEN 0
    ELSE LayerSizeLoop(0, 0, d \div w, d, v, w)

-----------------------------------------------------------------------------
(* core/layer.rs: binomial and calculate_layer_size (the usize variant) *)

\* numerator and denominator are accumulated separately, one division
RECURSIVE BinomialNumDen(_, _, _, _, _)
BinomialNumDen(num, den, n, k, i) ==
    IF i >= k THEN num \div den
    ELSE BinomialNumDen(num * (n - i), den * (i + 1), n, k, i + 1)

binomial(n, k) ==
    IF k > n THEN 0
    ELSE IF k = 0 \/ k = n THEN 1
    ELSE BinomialNumDen(1, 1, n, Min(k, n - k), 0)

\* `for s in 0..=max_s`: `continue` when inner < v - 1, `return 0` on underflow
RECURSIVE LayerLoop(_, _, _, _, _, _)
LayerLoop(sum, s, max_s, d, v, w) ==
    IF s > max_s THEN sum
    ELSE
      LET binom_v_s == binomial(v, s)
          inner == d - s * w + v - 1
      IN  IF inner < v - 1 THEN LayerLoop(sum, s + 1, max_s, d, v, w)
          ELSE
            LET term == binom_v_s * binomial(inner, v - 1)
            IN  IF s % 2 = 0 THEN LayerLoop(sum + term, s + 1, max_s, d, v, w)
                ELSE IF sum >= term
                     THEN LayerLoop(sum - term, s + 1, max_s, d, v, w)
                     ELSE 0

layer_calculate_layer_size(d, v, w) ==
    IF v = 0 THEN (IF d = 0 THEN 1 ELSE 0)
    ELSE IF d > v * (w - 1) THEN 0
    ELSE LET sum == LayerLoop(0, 0, d \div w, d, v, w)
         IN  IF ToUsize(sum).some THEN sum ELSE 0

-----------------------------------------------------------------------------
(* core/mapping.rs: vertex_to_integer (rank) *)

\* sum of calculate_layer_size(base - j, sub_v, w) for j in from..to (exclusive)
RECURSIVE SumLayerSizes(_, _, _, _, _)
SumLayerSizes(from, to, base, sub_v, w) ==
    IF from >= to THEN 0
    ELSE calculate_layer_size(base - from, sub_v, w)
         + SumLayerSizes(from + 1, to, base, sub_v, w)

\* the smallest admissible j: d_i - (w-1)*dims when positive, else 0
JMin(d_i, w, dims) ==
    IF d_i > (w - 1) * dims THEN d_i - (w - 1) * dims ELSE 0

\* `for i in (0..v - 1).rev()`; p is the 1-based position i + 1
RECURSIVE RankLoop(_, _, _, _, _, _)
RankLoop(vertex, w, v, p, x_v, d_v) ==
    IF p < 1 THEN [x_v |-> x_v, d_v |-> d_v]
    ELSE
      LET j_i == w - vertex[p]
          d_i == d_v + j_i
          remaining_dims == v - p
          j_min == JMin(d_i, w, remaining_dims)
          sum == SumLayerSizes(j_min, j_i, d_i, remaining_dims, w)
      IN  RankLoop(vertex, w, v, p - 1, x_v + sum, d_i)

\* the position of the first coordinate outside [1, w], 0 when there is none
FirstBadCoordinate(vertex, w) ==
    LET bad == {i \in 1..Len(vertex) : vertex[i] < 1 \/ vertex[i] > w}
    IN  IF bad = {} THEN 0 ELSE CHOOSE i \in bad : \A k \in bad : i <= k

vertex_to_integer(vertex, w, v, d) ==
    IF Len(vertex) # v THEN ErrInt("InvalidLayer")
    ELSE IF FirstBadCoordinate(vertex, w) # 0 THEN ErrInt("InvalidCoordinate")
    ELSE
      LET fin == RankLoop(vertex, w, v, v - 1, 0, w - vertex[v])
      IN  IF fin.d_v # d THEN ErrInt("InvalidLayer")
          ELSE IF ToUsize(fin.x_v).some THEN Ok(fin.x_v)
          ELSE ErrInt("IntegerOverflow")

-----------------------------------------------------------------------------
(* core/mapping.rs: integer_to_vertex (unrank) *)

\* the search `for j in j_min..=j_max`: "break" with j_i = j, "err" when the
\* last candidate is passed, "end" when the range is empty (j_i stays j_min)
RECURSIVE FindJ(_, _, _, _, _, _, _, _)
FindJ(j, j_min, j_max, x_i, d_i, sub_v, w, sum_before) ==
    IF j > j_max THEN [kind |-> "end", j_i |-> j_min]
    ELSE
      LET layer_size == calculate_layer_size(d_i - j, sub_v, w)
          sum_including == sum_before + layer_size
          fits == ToUsize(sum_including)
      IN  IF fits.some /\ x_i < fits.val THEN [kind |-> "break", j_i |-> j]
          ELSE IF ~fits.some THEN [kind |-> "break", j_i |-> j]
          ELSE IF j = j_max THEN [kind |-> "err", j_i |-> j]
          ELSE FindJ(j + 1, j_min, j_max, x_i, d_i, sub_v, w, sum_including)

\* `for i in 0..v - 1`; p is the 1-based position i + 1.  A usize subtraction
\* that would go below zero is the outcome "panic".
RECURSIVE UnrankLoop(_, _, _, _, _, _)
UnrankLoop(vertex, w, v, p, x_i, d_i) ==
    IF p > v - 1 THEN [kind |-> "done", vertex |-> vertex, x_i |-> x_i, d_i |-> d_i]
    ELSE
      LET remaining_dims == v - (p - 1)
          j_min == JMin(d_i, w, remaining_dims - 1)
          j_max == Min(d_i, w - 1)
          found == FindJ(j_min, j_min, j_max, x_i, d_i, remaining_dims - 1, w, 0)
          j_i == found.j_i
          d_next == d_i - j_i
          sum_to_subtract == SumLayerSizes(j_min, j_i, d_i, remaining_dims - 1, w)
          sub == ToUsize(sum_to_subtract)
          x_next == IF sub.some
                    THEN (IF x_i > sub.val THEN x_i - sub.val ELSE 0)
                    ELSE 0
      IN  IF found.kind = "err"
          THEN [kind |-> "err", vertex |-> vertex, x_i |-> x_i, d_i |-> d_i]
          ELSE IF j_i > w \/ j_i > d_i
          THEN [kind |-> "panic", vertex |-> vertex, x_i |-> x_i, d_i |-> d_i]
          ELSE UnrankLoop([vertex EXCEPT ![p] = w - j_i], w, v, p + 1, x_next, d_next)

integer_to_vertex(x, w, v, d) ==
    LET layer_size_big == calculate_layer_size(d, v, w)
        layer_size == ToUsize(layer_size_big)
    IN  IF layer_size.some /\ x >= layer_size.val THEN ErrVtx("IndexOutOfRange")
        ELSE
          LET LastCoordinate(fin) ==
                IF fin.kind = "err" THEN ErrVtx("IndexOutOfRange")
                ELSE IF fin.kind = "panic" THEN ErrVtx("panic")
                ELSE IF fin.x_i + fin.d_i > w THEN ErrVtx("IndexOutOfRange")
                ELSE
                  LET vertex == [fin.vertex EXCEPT ![v] = w - fin.x_i - fin.d_i]
                      actual_layer == v * w - SumSeq(vertex)
                  IN  IF actual_layer # d THEN ErrVtx("InvalidLayer")
                      ELSE Ok(vertex)
          IN  LastCoordinate(UnrankLoop([i \in 1..v |-> 0], w, v, 1, x, d))

\* NonUniformMappingPsi::new(w, v, d): the layer size as a usize, or
\* Err(IntegerOverflow); the layer is not compared with v(w-1)
NonUniformMappingPsi_new(w, v, d) ==
    LET AsUsize(layer_size) ==
          IF layer_size.some THEN Ok(layer_size.val) ELSE ErrInt("IntegerOverflow")
    IN  AsUsize(ToUsize(calculate_layer_size(d, v, w)))

\* NonUniformMappingPsi::map: `value % self.layer_size` panics on a zero
\* layer_size, then integer_to_vertex
NonUniformMappingPsi_map(w, v, d, layer_size, value) ==
    IF layer_size = 0 THEN ErrVtx("panic")
    ELSE integer_to_vertex(value % layer_size, w, v, d)

-----------------------------------------------------------------------------
(* core/hypercube.rs: the vertex enumeration *)

\* AllVertices: every vector of [1..w]^v
AllVertices(w, v) == [1..v -> 1..w]

\* Hypercube::vertices_in_layer: the filter v * w - sum == layer
vertices_in_layer(w, v, layer) ==
    {x \in AllVertices(w, v) : v * w - SumSeq(x) = layer}

\* vectors that are no vertex: a coordinate 0 or w + 1, or a wrong length
BadVectors(w, v) ==
    {[i \in 1..v |-> IF i = k THEN c ELSE w] : k \in 1..v, c \in {0, w + 1}}
        \cup {<<>>, [i \in 1..(v + 1) |-> w]}

\* Hypercube::total_vertices: w.pow(v)
total_vertices(w, v) == Pow(w, v)

-----------------------------------------------------------------------------
(* The mapping harness: each action is one call of a function of            *)
(* core/mapping.rs, core/layer.rs or core/hypercube.rs on drawn arguments.  *)

NoVtx == <<>>

InitMap ==
    /\ hw \in 2..MaxW
    /\ hv \in 1..MaxV
    /\ pc = "new"
    /\ argD = 0
    /\ argInt = 0
    /\ argVtx = NoVtx
    /\ resVtx = ErrVtx("none")
    /\ resInt = ErrInt("none")
    /\ resCount = 0

\* integer_to_vertex(x, w, v, d) on a drawn index and layer
CallIntegerToVertex ==
    /\ pc = "new"
    /\ \E d \in 0..(hv * (hw - 1) + 1), x \in 0..total_vertices(hw, hv) :
        /\ pc' = "integer_to_vertex"
        /\ argD' = d
        /\ argInt' = x
        /\ resVtx' = integer_to_vertex(x, hw, hv, d)
        /\ argVtx' = NoVtx
        /\ resInt' = ErrInt("none")
        /\ resCount' = 0
        /\ UNCHANGED <<hw, hv>>

\* vertex_to_integer applied to the vertex integer_to_vertex returned
CallRankOfUnranked ==
    /\ pc = "integer_to_vertex"
    /\ resVtx.ok
    /\ pc' = "rank_of_unranked"
    /\ resInt' = vertex_to_integer(resVtx.val, hw, hv, argD)
    /\ UNCHANGED <<hw, hv, argD, argInt, argVtx, resVtx, resCount>>

\* vertex_to_integer(vertex, w, v, d) on a drawn vector and layer
CallVertexToInteger ==
    /\ pc = "new"
    /\ \E x \in AllVertices(hw, hv) \cup BadVectors(hw, hv), d \in 0..(hv * (hw - 1) + 1) :
        /\ pc' = "vertex_to_integer"
        /\ argD' = d
        /\ argVtx' = x
        /\ resInt' = vertex_to_integer(x, hw, hv, d)
        /\ argInt' = 0
        /\ resVtx' = ErrVtx("none")
        /\ resCount' = 0
        /\ UNCHANGED <<hw, hv>>

\* integer_to_vertex applied to the rank vertex_to_integer returned
CallUnrankOfRanked ==
    /\ pc = "vertex_to_integer"
    /\ resInt.ok
    /\ pc' = "unrank_of_ranked"
    /\ resVtx' = integer_to_vertex(resInt.val, hw, hv, argD)
    /\ UNCHANGED <<hw, hv, argD, argInt, argVtx, resInt, resCount>>

\* mapping::calculate_layer_size(d, v, w) on a drawn layer
CallCalculateLayerSize ==
    /\ pc = "new"
    /\ \E d \in 0..(hv * (hw - 1) + 2) :
        /\ pc' = "calculate_layer_size"
        /\ argD' = d
        /\ resInt' = Ok(calculate_layer_size(d, hv, hw))
        /\ argInt' = 0
        /\ argVtx' = NoVtx
        /\ resVtx' = ErrVtx("none")
        /\ resCount' = 0
        /\ UNCHANGED <<hw, hv>>

\* Hypercube::vertices_in_layer(d).count() for the layer just sized
CallVerticesInLayer ==
    /\ pc = "calculate_layer_size"
    /\ pc' = "vertices_in_layer"
    /\ resCount' = Cardinality(vertices_in_layer(hw, hv, argD))
    /\ UNCHANGED <<hw, hv, argD, argInt, argVtx, resVtx, resInt>>

\* layer::calculate_layer_size(d, v, w) for the layer just sized by
\* mapping::calculate_layer_size
CallLayerCalculateLayerSize ==
    /\ pc = "calculate_layer_size"
    /\ pc' = "layer_calculate_layer_size"
    /\ resCount' = layer_calculate_layer_size(argD, hv, hw)
    /\ UNCHANGED <<hw, hv, argD, argInt, argVtx, resVtx, resInt>>

\* the loop of test_layer_size_symmetry: sum of layer::calculate_layer_size
\* over d in 0..=v(w-1), beside Hypercube::total_vertices
RECURSIVE SumOfLayers(_, _, _, _)
SumOfLayers(d, max_d, v, w) ==
    IF d > max_d THEN 0
    ELSE layer_calculate_layer_size(d, v, w) + SumOfLayers(d + 1, max_d, v, w)

CallSumOfLayers ==
    /\ pc = "new"
    /\ pc' = "sum_of_layers"
    /\ argD' = hv * (hw - 1)
    /\ resInt' = Ok(SumOfLayers(0, hv * (hw - 1), hv, hw))
    /\ resCount' = total_vertices(hw, hv)
    /\ argInt' = 0
    /\ argVtx' = NoVtx
    /\ resVtx' = ErrVtx("none")
    /\ UNCHANGED <<hw, hv>>

\* NonUniformMappingPsi::new(w, v, d) on a drawn layer, one past v(w-1) included
CallPsiNew ==
    /\ pc = "new"
    /\ \E d \in 0..(hv * (hw - 1) + 1) :
        /\ pc' = "psi_new"
        /\ argD' = d
        /\ resInt' = NonUniformMappingPsi_new(hw, hv, d)
        /\ argInt' = 0
        /\ argVtx' = NoVtx
        /\ resVtx' = ErrVtx("none")
        /\ resCount' = 0
        /\ UNCHANGED <<hw, hv>>

\* psi.map(value) on the mapping just constructed
CallPsiMap ==
    /\ pc = "psi_new"
    /\ resInt.ok
    /\ \E value \in 0..MaxZ :
        /\ pc' = "psi_map"
        /\ argInt' = value
        /\ resVtx' = NonUniformMappingPsi_map(hw, hv, argD, resInt.val, value)
        /\ UNCHANGED <<hw, hv, argD, argVtx, resInt, resCount>>

NextMap ==
    \/ CallPsiNew
    \/ CallPsiMap
    \/ CallIntegerToVertex
    \/ CallRankOfUnranked
    \/ CallVertexToInteger
    \/ CallUnrankOfRanked
    \/ CallCalculateLayerSize
    \/ CallVerticesInLayer
    \/ CallLayerCalculateLayerSize
    \/ CallSumOfLayers

-----------------------------------------------------------------------------
(* Properties of the mapping harness *)

MaxLayer == hv * (hw - 1)

IsVertex(x) == Len(x) = hv /\ \A i \in 1..hv : x[i] >= 1 /\ x[i] <= hw

\* the index drawn for integer_to_vertex lies in [0, l_d) of a layer of the cube
IndexInLayer == argD <= MaxLayer /\ argInt < calculate_layer_size(argD, hv, hw)

\* the vector drawn for vertex_to_integer is a vertex and d is its layer
VertexInLayer == IsVertex(argVtx) /\ argD = hv * hw - SumSeq(argVtx)

\* C1: for every w >= 2, v >= 1, d in [0, v(w-1)] and i in [0, l_d),
\* integer_to_vertex(i, w, v, d) succeeds and vertex_to_integer of its result
\* (same w, v, d) returns i.
C1_RankOfUnrank ==
    /\ (pc = "integer_to_vertex" /\ IndexInLayer) => resVtx.ok
    /\ (pc = "rank_of_unranked" /\ IndexInLayer) =>
           (resInt.ok /\ resInt.val = argInt)

\* C2: for every vertex x of [1..w]^v with d = v*w - sum(x), vertex_to_integer
\* succeeds with a rank r and integer_to_vertex(r, w, v, d) returns exactly x.
C2_UnrankOfRank ==
    /\ (pc = "vertex_to_integer" /\ VertexInLayer) => resInt.ok
    /\ (pc = "unrank_of_ranked" /\ VertexInLayer) =>
           (resVtx.ok /\ resVtx.val = argVtx)

\* C3: calculate_layer_size(d, v, w) is the number of vertices x of [1..w]^v
\* with v*w - sum(x) = d (those vertices_in_layer(d) enumerates); it is 0 for
\* d > v(w-1) and 1 for d = 0 and for d = v(w-1).
C3_LayerSizeCounts ==
    /\ pc = "vertices_in_layer" => resInt.val = resCount
    /\ pc \in {"calculate_layer_size", "vertices_in_layer"} =>
         /\ argD > MaxLayer => resInt.val = 0
         /\ (argD = 0 \/ argD = MaxLayer) => resInt.val = 1

\* C22: the constructors reject at construction time a layer outside
\* [0, v(w-1)] (and w < 2, v < 1, d0 + 1 > w for TL1C, c = 0 for TLFC), so
\* that no later map call aborts because of such parameters:
\* NonUniformMappingPsi::new(w, v, d) returns an error for d > v(w-1), and map
\* on a mapping that was constructed does not abort.
C22_ConstructorsRejectBadParameters ==
    /\ (pc = "psi_new" /\ argD > MaxLayer) => ~resInt.ok
    /\ pc = "psi_map" => resVtx.err # "panic"

\* C4: the sum of calculate_layer_size(d, v, w) over d = 0..v(w-1) is w^v.
C4_LayerSizesSumToCube ==
    pc = "sum_of_layers" => (resInt.ok /\ resInt.val = resCount)

\* C29: for every w >= 2, v and d for which the result fits in a machine word,
\* layer::calculate_layer_size(d, v, w) equals
\* mapping::calculate_layer_size(d, v, w).
C29_LayerSizeVariantsAgree ==
    (pc = "layer_calculate_layer_size" /\ ToUsize(resInt.val).some) =>
        resCount = resInt.val

-----------------------------------------------------------------------------

-----------------------------------------------------------------------------
(* crypto/hash.rs: the hash oracle.  SHA-256 is a library function; the    *)
(* model stands a fixed deterministic function of the input bytes in for   *)
(* it, with the same output size.                                          *)

HashLen == 32

\* usize::BITS of the 64-bit targets
WordBits == 64

\* the wide TSL instance: alphabet size and dimension
WideW == 65536
WideV == 6

\* the compression: the bytes from..to of data folded in order into two lanes
\* of state, the first half of the range and then the second half
RECURSIVE Absorb(_, _, _, _)
Absorb(s, data, from, to) ==
    IF from > to THEN s
    ELSE IF from = to
    THEN <<(s[1] * 131 + data[from] + 1) % 65521, (s[2] * 137 + data[from] + 1) % 65519>>
    ELSE CHOOSE out \in
             {Absorb(half, data, (from + to) \div 2 + 1, to) :
                 half \in {Absorb(s, data, from, (from + to) \div 2)}} : TRUE

\* the output bytes drawn from the two lanes
Squeeze(s) ==
    [j \in 1..HashLen |->
        ((((s[1] + 1) * (j * 977 + 13)) % 65521)
         + (((s[2] + 1) * (j * 991 + 7)) % 65519)) % 256]

\* the lanes are computed once and every output byte is drawn from that value
Hash(data) ==
    CHOOSE h \in {Squeeze(s) :
                    s \in {Absorb(<<Len(d) + 7, Len(d) + 11>>, d, 1, Len(d)) : d \in {data}}} :
        TRUE

-----------------------------------------------------------------------------
(* wots/mod.rs: the WOTS chain engine *)

\* a chain that applies H once whatever the count
hash_chain_one_step(input, iterations) ==
    IF iterations = 0 THEN input ELSE Hash(input)

\* hash_chain: H applied `iterations` times; H^0(x) = x. The loop of
\* `iterations` steps is cut in two halves, the second run on the value the
\* first returned
RECURSIVE hash_chain(_, _)
hash_chain(input, iterations) ==
    IF iterations = 0 THEN input
    ELSE IF iterations = 1 THEN Hash(input)
    ELSE CHOOSE out \in
             {hash_chain(half, iterations - iterations \div 2) :
                 half \in {hash_chain(input, iterations \div 2)}} : TRUE

\* OsSecureRandom::random_bytes(32) for chain i of the k-th key drawn
random_bytes(k, i) == [j \in 1..HashLen |-> (17 * k + 29 * i + j) % 256]

\* WotsKeypair::generate: sk_i random, pk_i = H^{w-1}(sk_i)
WotsGenerate(params, k) ==
    LET sk == [i \in 1..params.chains |-> random_bytes(k, i)]
    IN  [sk |-> sk,
         pk |-> [i \in 1..params.chains |-> hash_chain(sk[i], params.w - 1)]]

\* WotsKeypair::sign_raw: panics on a wrong length or a digit >= w
sign_raw(key, params, message_digest) ==
    IF Len(message_digest) # params.chains THEN [kind |-> "panic", chains |-> <<>>]
    ELSE IF \E i \in 1..params.chains : message_digest[i] >= params.w
    THEN [kind |-> "panic", chains |-> <<>>]
    ELSE [kind |-> "ok",
          chains |-> [i \in 1..params.chains |->
                         hash_chain(key.sk[i], message_digest[i])]]

\* a verifier that walks each chain one step too far
wots_verify_one_step_more(pk, params, message_digest, sig_chains) ==
    IF Len(message_digest) # params.chains THEN FALSE
    ELSE IF Len(sig_chains) # params.chains THEN FALSE
    ELSE \A i \in 1..params.chains :
            /\ message_digest[i] < params.w
            /\ hash_chain(sig_chains[i], params.w - message_digest[i]) = pk[i]

\* a verifier that checks the first chain only
wots_verify_first_chain(pk, params, message_digest, sig_chains) ==
    IF Len(message_digest) # params.chains THEN FALSE
    ELSE IF Len(sig_chains) # params.chains THEN FALSE
    ELSE /\ message_digest[1] < params.w
         /\ hash_chain(sig_chains[1], params.w - 1 - message_digest[1]) = pk[1]

\* WotsPublicKey::verify
wots_verify(pk, params, message_digest, sig_chains) ==
    IF Len(message_digest) # params.chains THEN FALSE
    ELSE IF Len(sig_chains) # params.chains THEN FALSE
    ELSE \A i \in 1..params.chains :
            /\ message_digest[i] < params.w
            /\ hash_chain(sig_chains[i], params.w - 1 - message_digest[i]) = pk[i]

-----------------------------------------------------------------------------
(* usize arithmetic on hash-derived values.  A value read from the first 8 *)
(* bytes of a hash is kept as its 8 little-endian bytes.                   *)

\* value |= (byte as usize) << (i * 8) for the first 8 bytes
HashToValue(hash) == [i \in 1..8 |-> hash[i]]

RECURSIVE U64ModFrom(_, _, _, _)
U64ModFrom(bytes, n, i, acc) ==
    IF i = 0 THEN acc
    ELSE U64ModFrom(bytes, n, i - 1, (acc * 256 + bytes[i]) % n)

\* value % n
U64Mod(bytes, n) == U64ModFrom(bytes, n, 8, 0)

\* a small usize as 8 little-endian bytes
U64FromUsize(x) ==
    [i \in 1..8 |-> IF i <= 4 THEN (x \div Pow(256, i - 1)) % 256 ELSE 0]

RECURSIVE WrappingMulFrom(_, _, _, _)
WrappingMulFrom(a, b, k, carry) ==
    IF k > 8 THEN <<>>
    ELSE LET col == carry + SumSeq([i \in 1..k |-> a[i] * b[k + 1 - i]])
         IN  <<col % 256>> \o WrappingMulFrom(a, b, k + 1, col \div 256)

\* usize::wrapping_mul
wrapping_mul(a, b) == WrappingMulFrom(a, b, 1, 0)

RECURSIVE WrappingAddFrom(_, _, _, _)
WrappingAddFrom(a, b, k, carry) ==
    IF k > 8 THEN <<>>
    ELSE LET col == carry + a[k] + b[k]
         IN  <<col % 256>> \o WrappingAddFrom(a, b, k + 1, col \div 256)

\* usize::wrapping_add
wrapping_add(a, b) == WrappingAddFrom(a, b, 1, 0)

\* whether a + b leaves the 64 bits: the carry out of the eighth byte
RECURSIVE AddCarryFrom(_, _, _, _)
AddCarryFrom(a, b, k, carry) ==
    IF k > 8 THEN carry
    ELSE AddCarryFrom(a, b, k + 1, (carry + a[k] + b[k]) \div 256)

add_overflows(a, b) == AddCarryFrom(a, b, 1, 0) # 0

\* (1 << s) * x as usize for s < 64: the bytes of x moved up by s bits, the
\* bits that leave the eighth byte dropped
wrapping_shl_mul(s, x) ==
    LET q == s \div 8
        m == Pow(2, s % 8)
    IN  SubSeq([n \in 1..8 |->
                  (IF n - q \in 1..8 THEN (x[n - q] * m) % 256 ELSE 0)
                      + (IF n - q - 1 \in 1..8 THEN (x[n - q - 1] * m) \div 256 ELSE 0)],
               1, 8)

\* whether (1 << s) * x leaves the 64 bits: a set bit of x is moved out
shl_mul_overflows(s, x) ==
    LET q == s \div 8
        m == Pow(2, s % 8)
    IN  \E n \in 1..8 : \/ (n + q > 8 /\ x[n] # 0)
                         \/ (n + q = 8 /\ x[n] * m >= 256)

\* w - a as usize; below zero it wraps to 2^64 - (a - w)
wrapping_sub(w, a) ==
    IF a <= w THEN SubSeq(U64FromUsize(w - a), 1, 8)
    ELSE SubSeq([i \in 1..8 |-> 255 - U64FromUsize(a - w - 1)[i]], 1, 8)

-----------------------------------------------------------------------------
(* BigUint values beyond the checker's integers: little-endian bytes, no    *)
(* high zero byte, zero being the empty sequence.                            *)

\* BigUint::from(x) for a usize x below 2^31
RECURSIVE BigFromUsize(_)
BigFromUsize(x) == IF x = 0 THEN <<>> ELSE <<x % 256>> \o BigFromUsize(x \div 256)

\* the bytes without their high zero bytes
BigTrim(a) ==
    LET nonzero == {i \in 1..Len(a) : a[i] # 0}
    IN  IF nonzero = {} THEN <<>>
        ELSE SubSeq(a, 1, CHOOSE i \in nonzero : \A j \in nonzero : j <= i)

\* one byte of a carry loop: the byte written and the carry, borrow or
\* remainder handed to the next byte
BigStep(kind, x, y, m, state) ==
    CASE kind = "add" -> [out |-> <<(state + x + y) % 256>>,
                          state |-> (state + x + y) \div 256]
      [] kind = "sub" -> [out |-> <<(256 + x - state - y) % 256>>,
                          state |-> IF 256 + x - state - y < 256 THEN 1 ELSE 0]
      [] kind = "mul" -> [out |-> <<(state + x * m) % 256>>,
                          state |-> (state + x * m) \div 256]
      [] kind = "div" -> [out |-> <<(state * 256 + x) \div m>>,
                          state |-> (state * 256 + x) % m]

\* the carry loop over the bytes from..to of a (and b), in order: the first
\* half of the range, then the second half from the state the first left
RECURSIVE BigLoop(_, _, _, _, _, _, _)
BigLoop(kind, a, b, m, from, to, state) ==
    IF from > to THEN [out |-> <<>>, state |-> state]
    ELSE IF from = to
    THEN BigStep(kind, a[from], IF from <= Len(b) THEN b[from] ELSE 0, m, state)
    ELSE CHOOSE r \in
             UNION {{[out |-> lo.out \o hi.out, state |-> hi.state] :
                        hi \in {BigLoop(kind, a, b, m, (from + to) \div 2 + 1, to,
                                        lo.state)}} :
                       lo \in {BigLoop(kind, a, b, m, from, (from + to) \div 2,
                                       state)}} : TRUE

\* a + b
BigAdd(a, b) ==
    CHOOSE sum \in
        {r.out \o (IF r.state = 0 THEN <<>> ELSE <<r.state>>) :
            r \in UNION {{IF Len(x) >= Len(y) THEN BigLoop("add", x, y, 0, 1, Len(x), 0)
                          ELSE BigLoop("add", y, x, 0, 1, Len(y), 0)} :
                            x \in {a}, y \in {b}}} : TRUE

\* a < b, decided at the highest byte that differs
BigLess(a, b) ==
    \E x \in {a}, y \in {b} :
        IF Len(x) # Len(y) THEN Len(x) < Len(y)
        ELSE LET differ == {i \in 1..Len(x) : x[i] # y[i]}
             IN  /\ differ # {}
                 /\ \E k \in differ : (\A j \in differ : j <= k) /\ x[k] < y[k]

\* BigUint::checked_sub
BigCheckedSub(a, b) ==
    CHOOSE r \in {IF BigLess(x, y) THEN [some |-> FALSE, val |-> <<>>]
                  ELSE [some |-> TRUE,
                        val |-> BigTrim(BigLoop("sub", x, y, 0, 1, Len(x), 0).out)] :
                     x \in {a}, y \in {b}} : TRUE

\* a * m for a usize m below 2^22
BigMulUsize(a, m) ==
    IF m = 0 THEN <<>>
    ELSE CHOOSE prod \in
             {r.out \o BigFromUsize(r.state) :
                 r \in UNION {{BigLoop("mul", x, <<>>, m, 1, Len(x), 0)} : x \in {a}}} :
             TRUE

\* a / m for a usize m in [1, 2^22): long division from the highest byte
BigDivUsize(a, m) ==
    CHOOSE quot \in
        {BigTrim([i \in 1..Len(r.out) |-> r.out[Len(r.out) + 1 - i]]) :
            r \in {BigLoop("div", [i \in 1..Len(x) |-> x[Len(x) + 1 - i]], <<>>, m, 1,
                           Len(x), 0) : x \in {a}}} : TRUE

\* a * b: the products a * b[k] * 256^(k-1) for k in from..to added up, the
\* two halves of the range apart
RECURSIVE BigMulFrom(_, _, _, _)
BigMulFrom(a, b, from, to) ==
    IF from > to THEN <<>>
    ELSE IF from = to THEN [i \in 1..from - 1 |-> 0] \o BigMulUsize(a, b[from])
    ELSE BigAdd(BigMulFrom(a, b, from, (from + to) \div 2),
                BigMulFrom(a, b, (from + to) \div 2 + 1, to))

BigMul(a, b) ==
    CHOOSE r \in {BigTrim(BigMulFrom(x, y, 1, Len(y))) : x \in {a}, y \in {b}} : TRUE

\* BigUint::to_usize: Some when the value has at most eight bytes
BigToUsize(a) == [some |-> Len(a) <= 8, val |-> a]

\* the usize held in a BigUint that is below 2^31
RECURSIVE BigToInt(_)
BigToInt(a) == IF a = <<>> THEN 0 ELSE a[1] + 256 * BigToInt(Tail(a))

-----------------------------------------------------------------------------
(* core/mapping.rs on BigUint values: the functions above, computed on byte *)
(* sequences, for the layers whose size is beyond the checker's integers.   *)

\* the loop `for i in 0..k { result = result * (n - i) / (i + 1) }`, here the
\* iterations from..to-1 in order: the first half, then the second half on
\* its result, so that the evaluation stays shallow
RECURSIVE BinomialLoopBig(_, _, _, _)
BinomialLoopBig(result, n, from, to) ==
    IF from >= to THEN result
    ELSE IF to = from + 1 THEN BigDivUsize(BigMulUsize(result, n - from), from + 1)
    ELSE CHOOSE out \in
             {BinomialLoopBig(half, n, (from + to) \div 2, to) :
                 half \in {BinomialLoopBig(result, n, from, (from + to) \div 2)}} : TRUE

binomial_coefficient_big(n, k) ==
    IF k > n THEN <<>>
    ELSE IF k = 0 \/ k = n THEN <<1>>
    ELSE BinomialLoopBig(<<1>>, n, 0, Min(k, n - k))

\* one pass of `for s in 0..=max_s` with the running sum
RECURSIVE LayerSizeLoopBig(_, _, _, _, _, _)
LayerSizeLoopBig(sum, s, max_s, d, v, w) ==
    IF s > max_s THEN sum
    ELSE
      LET inner_arg == d + v - 1 - s * w
          Apply(term) ==
              IF s % 2 = 0 THEN BigAdd(sum, term)
              ELSE LET OrZero(diff) == IF diff.some THEN diff.val ELSE <<>>
                   IN  OrZero(BigCheckedSub(sum, term))
      IN  CHOOSE out \in
              {LayerSizeLoopBig(next, s + 1, max_s, d, v, w) :
                  next \in {Apply(BigMul(binomial_coefficient_big(v, s),
                                         IF inner_arg >= v - 1
                                         THEN binomial_coefficient_big(inner_arg, v - 1)
                                         ELSE <<>>))}} : TRUE

calculate_layer_size_big(d, v, w) ==
    IF v = 0 THEN (IF d = 0 THEN <<1>> ELSE <<>>)
    ELSE IF d > v * (w - 1) THEN <<>>
    ELSE LayerSizeLoopBig(<<>>, 0, d \div w, d, v, w)

\* sum of calculate_layer_size(base - j, sub_v, w) for j in from..to (exclusive),
\* the two halves of the range added up apart
RECURSIVE SumLayerSizesBig(_, _, _, _, _)
SumLayerSizesBig(from, to, base, sub_v, w) ==
    IF from >= to THEN <<>>
    ELSE IF to = from + 1 THEN calculate_layer_size_big(base - from, sub_v, w)
    ELSE CHOOSE sum \in
             {BigAdd(lo, hi) :
                 lo \in {SumLayerSizesBig(from, (from + to) \div 2, base, sub_v, w)},
                 hi \in {SumLayerSizesBig((from + to) \div 2, to, base, sub_v, w)}} : TRUE

\* the search `for j in j_min..=j_max` of integer_to_vertex over j in from..to:
\* the first half of the range, then, when the loop has not left, the second
\* half with the sum the first half reached
RECURSIVE FindJRange(_, _, _, _, _, _, _, _)
FindJRange(from, to, j_max, x_i, d_i, sub_v, w, sum_before) ==
    IF from = to
    THEN LET Compare(sum_including) ==
                 IF Len(sum_including) > 8
                 THEN [kind |-> "break", j_i |-> from, sum |-> sum_including]
                 ELSE IF BigLess(BigFromUsize(x_i), sum_including)
                 THEN [kind |-> "break", j_i |-> from, sum |-> sum_including]
                 ELSE IF from = j_max
                 THEN [kind |-> "err", j_i |-> from, sum |-> sum_including]
                 ELSE [kind |-> "continue", j_i |-> from, sum |-> sum_including]
         IN  CHOOSE out \in
                 {Compare(sum_including) :
                     sum_including \in
                         {BigAdd(sum_before,
                                 calculate_layer_size_big(d_i - from, sub_v, w))}} : TRUE
    ELSE LET Rest(lo) ==
                 IF lo.kind # "continue" THEN lo
                 ELSE FindJRange((from + to) \div 2 + 1, to, j_max, x_i, d_i, sub_v, w,
                                 lo.sum)
         IN  CHOOSE out \in
                 {Rest(lo) :
                     lo \in {FindJRange(from, (from + to) \div 2, j_max, x_i, d_i, sub_v,
                                        w, sum_before)}} : TRUE

\* the search from j on: it is run on the first 1, 2, 4, ... values of j until
\* it leaves the loop there, so that a loop that leaves early is found in a
\* shallow evaluation
FindJBig(j, j_min, j_max, x_i, d_i, sub_v, w, sum_before) ==
    IF j > j_max THEN [kind |-> "end", j_i |-> j_min]
    ELSE LET Span(k) == FindJRange(j, Min(j + Pow(2, k) - 1, j_max), j_max, x_i, d_i,
                                   sub_v, w, sum_before)
             Found(r) == [kind |-> r.kind, j_i |-> r.j_i]
         IN  Found(Span(CHOOSE k \in 0..17 :
                            j + Pow(2, k) - 1 >= j_max \/ Span(k).kind # "continue"))

\* `for i in 0..v - 1` of integer_to_vertex; p is the 1-based position i + 1
RECURSIVE UnrankLoopBig(_, _, _, _, _, _)
UnrankLoopBig(vertex, w, v, p, x_i, d_i) ==
    IF p > v - 1 THEN [kind |-> "done", vertex |-> vertex, x_i |-> x_i, d_i |-> d_i]
    ELSE
      LET remaining_dims == v - (p - 1)
          j_min == JMin(d_i, w, remaining_dims - 1)
          XNext(sub) ==
              IF ~BigToUsize(sub).some THEN 0
              ELSE IF BigLess(sub, BigFromUsize(x_i)) THEN x_i - BigToInt(sub)
              ELSE 0
          Step(found) ==
              IF found.kind = "err"
              THEN [kind |-> "err", vertex |-> vertex, x_i |-> x_i, d_i |-> d_i]
              ELSE IF found.j_i > w \/ found.j_i > d_i
              THEN [kind |-> "panic", vertex |-> vertex, x_i |-> x_i, d_i |-> d_i]
              ELSE CHOOSE out \in
                       {UnrankLoopBig([vertex EXCEPT ![p] = w - found.j_i], w, v, p + 1,
                                      x_next, d_i - found.j_i) :
                           x_next \in
                               {XNext(SumLayerSizesBig(j_min, found.j_i, d_i,
                                                       remaining_dims - 1, w))}} : TRUE
      IN  CHOOSE out \in
              {Step(found) :
                  found \in {FindJBig(j_min, j_min, Min(d_i, w - 1), x_i, d_i,
                                      remaining_dims - 1, w, <<>>)}} : TRUE

integer_to_vertex_big(x, w, v, d) ==
    LET Unrank(layer_size_big) ==
          IF /\ BigToUsize(layer_size_big).some
             /\ ~BigLess(BigFromUsize(x), layer_size_big)
          THEN ErrVtx("IndexOutOfRange")
          ELSE
            LET LastCoordinate(fin) ==
                  IF fin.kind = "err" THEN ErrVtx("IndexOutOfRange")
                  ELSE IF fin.kind = "panic" THEN ErrVtx("panic")
                  ELSE IF fin.x_i + fin.d_i > w THEN ErrVtx("IndexOutOfRange")
                  ELSE
                    LET Verify(vertex) ==
                          IF v * w - SumSeq(vertex) # d THEN ErrVtx("InvalidLayer")
                          ELSE Ok(vertex)
                    IN  Verify([fin.vertex EXCEPT ![v] = w - fin.x_i - fin.d_i])
            IN  CHOOSE out \in
                    {LastCoordinate(fin) :
                        fin \in {UnrankLoopBig([i \in 1..v |-> 0], w, v, 1, x, d)}} :
                    TRUE
    IN  Unrank(calculate_layer_size_big(d, v, w))

-----------------------------------------------------------------------------
(* schemes/tsl.rs *)

\* a vertex an encoder produced, or the panic that ended the call
Emit(x) == [kind |-> "ok", val |-> x]

Panicked == [kind |-> "panic", val |-> <<>>]

\* TSLConfig::with_params: the three assertions
TSLConfig_with_params(w, v, d0) == w > 1 /\ v > 0 /\ d0 <= v * (w - 1)

\* TSL::new: layer d0 must have positive size
TSL_new(cfg) == calculate_layer_size(cfg.d0, cfg.v, cfg.w) # 0

\* the multipliers of the fallback index, as little-endian bytes:
\* 2654435761, 2246822507, 3266489917, 668265263
MulValue == <<177, 121, 55, 158, 0, 0, 0, 0>>
MulD0 == <<107, 202, 235, 133, 0, 0, 0, 0>>
MulV == <<61, 174, 178, 194, 0, 0, 0, 0>>
MulW == <<47, 235, 212, 39, 0, 0, 0, 0>>

\* the index used when the layer size does not fit in usize
FallbackIndex(cfg, value) ==
    LET hash_input ==
            wrapping_add(
              wrapping_add(
                wrapping_add(wrapping_mul(value, MulValue),
                             wrapping_mul(U64FromUsize(cfg.d0), MulD0)),
                wrapping_mul(U64FromUsize(cfg.v), MulV)),
              wrapping_mul(U64FromUsize(cfg.w), MulW))
        max_safe_index == Min(cfg.v * cfg.w, 10000)
    IN  U64Mod(hash_input, max_safe_index)

\* the retry loop of map_to_layer; [brk |-> TRUE] when the loop is left by break
RECURSIVE MapRetry(_, _, _)
MapRetry(cfg, current_index, attempts) ==
    LET Match(r) ==
          IF r.ok THEN [brk |-> FALSE, res |-> r]
          ELSE IF r.err = "panic" THEN [brk |-> FALSE, res |-> r]
          ELSE IF r.err = "IndexOutOfRange"
          THEN IF attempts + 1 > 20 THEN [brk |-> TRUE, res |-> r]
               ELSE IF current_index \div 2 = 0 /\ attempts + 1 = 1
                    THEN [brk |-> TRUE, res |-> r]
                    ELSE MapRetry(cfg, current_index \div 2, attempts + 1)
          ELSE IF attempts + 1 > 5 THEN [brk |-> FALSE, res |-> r]
               ELSE MapRetry(cfg, IF current_index > 0 THEN current_index - 1 ELSE 0,
                             attempts + 1)
    IN  Match(integer_to_vertex(current_index, cfg.w, cfg.v, cfg.d0))

\* TSL::map_to_layer
map_to_layer(cfg, value) ==
    LET layer_size == calculate_layer_size(cfg.d0, cfg.v, cfg.w)
        fits == ToUsize(layer_size)
    IN  IF layer_size = 0 THEN ErrVtx("InvalidLayer")
        ELSE
          LET mapped_index == IF fits.some THEN U64Mod(value, fits.val)
                              ELSE FallbackIndex(cfg, value)
              AfterLoop(loop) ==
                  IF loop.brk THEN integer_to_vertex(0, cfg.w, cfg.v, cfg.d0)
                  ELSE loop.res
          IN  AfterLoop(MapRetry(cfg, mapped_index, 0))

\* TSL::new on a layer size held as a BigUint
TSL_new_big(cfg) == calculate_layer_size_big(cfg.d0, cfg.v, cfg.w) # <<>>

\* the paper parameters of TSLConfig::new_full, rows (w, v, optimal_d0)
paper_params_128 ==
    <<<<86, 25, 384>>, <<44, 30, 235>>, <<26, 35, 168>>, <<20, 40, 131>>,
      <<18, 45, 108>>, <<14, 50, 93>>, <<10, 55, 83>>, <<8, 64, 70>>,
      <<6, 84, 54>>, <<4, 132, 39>>>>

paper_params_160 ==
    <<<<56, 35, 337>>, <<44, 40, 245>>, <<28, 45, 193>>, <<21, 50, 160>>,
      <<14, 60, 121>>, <<13, 70, 99>>, <<8, 80, 86>>, <<6, 104, 67>>,
      <<4, 168, 48>>>>

\* b^e as a BigUint, e >= 0
RECURSIVE BigPow(_, _)
BigPow(b, e) ==
    IF e = 0 THEN <<1>>
    ELSE IF e = 1 THEN BigFromUsize(b)
    ELSE CHOOSE out \in {BigMul(lo, hi) : lo \in {BigPow(b, e \div 2)},
                                          hi \in {BigPow(b, e - e \div 2)}} : TRUE

\* total_bits >= required_bits, that is v * log2(w) >= s + log2(s) / 2,
\* decided on integers: w^(2v) >= 2^(2s) * s
MeetsSecurity(w, v, security_bits) ==
    ~BigLess(BigPow(w, 2 * v), BigMulUsize(BigPow(2, 2 * security_bits), security_bits))

\* the loop `for &(w, param_v, d0) in params`; best.some is FALSE while
\* min_v_diff is still usize::MAX
RECURSIVE BestMatchLoop(_, _, _, _, _)
BestMatchLoop(params, k, v, security_bits, best) ==
    IF k > Len(params) THEN best
    ELSE
      LET w == params[k][1]
          param_v == params[k][2]
          d0 == params[k][3]
          v_diff == IF param_v >= v THEN param_v - v ELSE v - param_v
      IN  CHOOSE out \in
              {BestMatchLoop(params, k + 1, v, security_bits, next) :
                  next \in {IF /\ (~best.some \/ v_diff < best.min_v_diff)
                               /\ calculate_layer_size_big(d0, v, w) # <<>>
                               /\ MeetsSecurity(w, v, security_bits)
                            THEN [some |-> TRUE, w |-> w, d0 |-> d0,
                                  min_v_diff |-> v_diff]
                            ELSE best}} : TRUE

\* the search `for d in (0..=max_d).rev().take(max_d.min(20))` for the largest layer
RECURSIVE LargestLayerLoop(_, _, _, _, _, _)
LargestLayerLoop(d, taken, limit, v, w, acc) ==
    IF taken >= limit \/ d < 0 THEN acc.best_d0
    ELSE
      LET Step(layer_size) ==
              LargestLayerLoop(d - 1, taken + 1, limit, v, w,
                               IF BigLess(acc.max_size, layer_size)
                               THEN [max_size |-> layer_size, best_d0 |-> d]
                               ELSE acc)
      IN  CHOOSE out \in {Step(layer_size) :
                             layer_size \in {calculate_layer_size_big(d, v, w)}} : TRUE

\* TSLConfig::new_full(security_bits, v)
TSLConfig_new_full(security_bits, v) ==
    LET Config(w, d0) == [kind |-> "TSL", w |-> w, v |-> v, d0 |-> d0, c |-> 0]
        Adjust(w, d0) ==
            IF d0 > v * (w - 1)
            THEN LargestLayerLoop(v * (w - 1), 0, Min(v * (w - 1), 20), v, w,
                                  [max_size |-> <<>>, best_d0 |-> (v * (w - 1)) \div 2])
            ELSE d0
        Select(best) ==
            IF best.some THEN Config(best.w, Adjust(best.w, best.d0))
            ELSE IF security_bits <= 128 THEN Config(4, (v * (4 - 1)) \div 2)
            ELSE Config(6, (v * (6 - 1)) \div 2)
    IN  CHOOSE cfg \in
            {Select(best) :
                best \in {BestMatchLoop(IF security_bits <= 128 THEN paper_params_128
                                         ELSE paper_params_160,
                                         1, v, security_bits,
                                         [some |-> FALSE, w |-> 0, d0 |-> 0,
                                          min_v_diff |-> 0])}} : TRUE

\* TSLConfig::new(security_bits): 128 and 160 are matched, anything else panics
TSLConfig_new(security_bits) ==
    IF security_bits = 128 THEN Emit(TSLConfig_new_full(128, 25))
    ELSE IF security_bits = 160 THEN Emit(TSLConfig_new_full(160, 35))
    ELSE Panicked

\* TSL::new(TSLConfig::new(security_bits)): the instance, or the panic of
\* either constructor
TSL_of_security_bits(security_bits) ==
    CHOOSE tsl \in
        {IF config.kind = "panic" THEN Panicked
         ELSE IF TSL_new_big(config.val) THEN config
         ELSE Panicked :
            config \in {TSLConfig_new(security_bits)}} : TRUE

\* one iteration of the retry loop of map_to_layer, unranking on BigUint layer
\* sizes; a state that has left the loop stays as it is
MapRetryStep(cfg, state) ==
    IF state.left THEN state
    ELSE
      LET Match(r) ==
            IF r.ok \/ r.err = "panic"
            THEN [state EXCEPT !.left = TRUE, !.res = r]
            ELSE IF r.err = "IndexOutOfRange"
            THEN IF state.attempts + 1 > 20
                 THEN [state EXCEPT !.left = TRUE, !.brk = TRUE, !.res = r]
                 ELSE IF state.current_index \div 2 = 0 /\ state.attempts + 1 = 1
                      THEN [state EXCEPT !.left = TRUE, !.brk = TRUE, !.res = r]
                      ELSE [state EXCEPT !.current_index = state.current_index \div 2,
                                         !.attempts = state.attempts + 1]
            ELSE IF state.attempts + 1 > 5
                 THEN [state EXCEPT !.left = TRUE, !.res = r]
                 ELSE [state EXCEPT !.current_index =
                                        IF state.current_index > 0
                                        THEN state.current_index - 1 ELSE 0,
                                    !.attempts = state.attempts + 1]
      IN  CHOOSE out \in
              {Match(r) :
                  r \in {integer_to_vertex_big(state.current_index, cfg.w, cfg.v,
                                               cfg.d0)}} : TRUE

\* n iterations of the loop in order: the first half, then the second half
RECURSIVE MapRetrySteps(_, _, _)
MapRetrySteps(cfg, state, n) ==
    IF n = 0 \/ state.left THEN state
    ELSE IF n = 1 THEN MapRetryStep(cfg, state)
    ELSE CHOOSE out \in
             {MapRetrySteps(cfg, half, n - n \div 2) :
                 half \in {MapRetrySteps(cfg, state, n \div 2)}} : TRUE

\* the retry loop of map_to_layer, unranking on BigUint layer sizes: the loop
\* leaves at the latest in the iteration that counts the 21st attempt
MapRetryBig(cfg, current_index, attempts) ==
    LET Left(state) == [brk |-> state.brk, res |-> state.res]
    IN  Left(MapRetrySteps(cfg,
                           [current_index |-> current_index, attempts |-> attempts,
                            left |-> FALSE, brk |-> FALSE,
                            res |-> ErrVtx("none")],
                           21 - attempts))

\* the local mapped_index of map_to_layer for a layer size held as a BigUint:
\* value % layer_size when the size fits in usize (sizes below 2^31 here),
\* the fallback index otherwise
mapped_index_big(cfg, layer_size, value) ==
    IF BigToUsize(layer_size).some THEN U64Mod(value, BigToInt(layer_size))
    ELSE FallbackIndex(cfg, value)

\* TSL::map_to_layer on a layer size held as a BigUint; the result comes with
\* the local mapped_index
map_to_layer_big(cfg, value) ==
    LET AfterLoop(mapped_index, loop) ==
            [index |-> mapped_index,
             out |-> IF loop.brk THEN integer_to_vertex_big(0, cfg.w, cfg.v, cfg.d0)
                     ELSE loop.res]
        Retry(mapped_index) ==
            CHOOSE r \in {AfterLoop(mapped_index, loop) :
                             loop \in {MapRetryBig(cfg, mapped_index, 0)}} : TRUE
        Select(layer_size) ==
            IF layer_size = <<>> THEN [index |-> 0, out |-> ErrVtx("InvalidLayer")]
            ELSE CHOOSE r \in {Retry(mapped_index) :
                                  mapped_index \in
                                      {mapped_index_big(cfg, layer_size, value)}} : TRUE
    IN  CHOOSE r \in {Select(layer_size) :
                         layer_size \in
                             {calculate_layer_size_big(cfg.d0, cfg.v, cfg.w)}} : TRUE

\* TSL::encode (inherent): H(m || r), first 8 bytes, map_to_layer
TSL_encode(cfg, message, randomness) ==
    map_to_layer(cfg, HashToValue(Hash(message \o randomness)))

\* an encoder that answers every call with the sink vertex
TSL_encode_vertex_sink(cfg, message, randomness) == Emit([i \in 1..cfg.v |-> cfg.w])

\* <TSL as EncodingScheme>::encode: the sink vertex when the mapping fails
TSL_encode_vertex(cfg, message, randomness) ==
    LET OrSink(r) ==
          IF r.ok THEN Emit(r.val)
          ELSE IF r.err = "panic" THEN Panicked
          ELSE Emit([i \in 1..cfg.v |-> cfg.w])
    IN  OrSink(TSL_encode(cfg, message, randomness))

-----------------------------------------------------------------------------
(* schemes/tl1c.rs and schemes/tlfc.rs *)

\* TL1CConfig::with_params: the four assertions
TL1CConfig_with_params(w, v, d0) ==
    w > 1 /\ v > 0 /\ d0 <= v * (w - 1) /\ d0 + 1 <= w

\* TLFCConfig::with_params: the five assertions
TLFCConfig_with_params(w, v, d0, c) ==
    w > 1 /\ v > 0 /\ d0 <= v * (w - 1) /\ c > 0 /\ c <= v

\* TL1C::new / TLFC::new: the total size of layers [0, d0]
RECURSIVE TotalLayerLoop(_, _)
TotalLayerLoop(cfg, d) ==
    IF d > cfg.d0 THEN 0
    ELSE calculate_layer_size(d, cfg.v, cfg.w) + TotalLayerLoop(cfg, d + 1)

total_layer_size(cfg) == TotalLayerLoop(cfg, 0)

\* the loop of map_to_top_layers over d
RECURSIVE TopLayersLoop(_, _, _, _)
TopLayersLoop(cfg, index, d, cumulative) ==
    IF d > cfg.d0 THEN Panicked
    ELSE
      LET layer_size == calculate_layer_size(d, cfg.v, cfg.w)
      IN  IF index < cumulative + layer_size
          THEN LET OrSink(r) ==
                     IF r.ok THEN Emit(r.val)
                     ELSE IF r.err = "panic" THEN Panicked
                     ELSE Emit([i \in 1..cfg.v |-> cfg.w])
               IN  OrSink(integer_to_vertex(index - cumulative, cfg.w, cfg.v, d))
          ELSE TopLayersLoop(cfg, index, d + 1, cumulative + layer_size)

\* TL1C::map_to_top_layers, and TLFC's copy of it
map_to_top_layers(cfg, value) ==
    TopLayersLoop(cfg, U64Mod(value, total_layer_size(cfg)), 0, 0)

\* a layer computed from the first component alone
calculate_layer_of_first(cfg, vertex) == cfg.w - vertex[1]

\* Hypercube::calculate_layer
calculate_layer(cfg, vertex) == cfg.v * cfg.w - SumSeq(vertex)

\* a checksum that repeats the layer
calculate_checksum_of_layer(layer) == layer

\* TL1C::calculate_checksum
calculate_checksum(layer) == layer + 1

\* TL1C::message_to_wots_digest: the vertex followed by the checksum
TL1C_message_to_wots_digest(cfg, message, randomness) ==
    LET Digest(vertex) ==
          IF vertex.kind = "panic" THEN Panicked
          ELSE Emit(Append(vertex.val,
                           calculate_checksum(calculate_layer(cfg, vertex.val))))
    IN  Digest(map_to_top_layers(cfg, HashToValue(Hash(message \o randomness))))

\* the loop `for (j, &a_j) in components.iter().enumerate()`, followed for one
\* accumulator: checksums[i] only receives the positions j = i, i + c, i + 2c, ...
\* and every one of them carries the weight 1 << (j % c) = 1 << i.  The
\* accumulator is a usize; `overflowed` records whether a subtraction, a
\* multiplication or an addition left the 64 bits on the way.
RECURSIVE ChecksumLoop(_, _, _, _, _)
ChecksumLoop(cfg, components, i, j, acc) ==
    IF j >= Len(components) THEN acc
    ELSE
      LET diff == wrapping_sub(cfg.w, components[j + 1])
          Accumulate(term) ==
              [overflowed |-> \/ acc.overflowed
                              \/ components[j + 1] > cfg.w
                              \/ shl_mul_overflows(i, diff)
                              \/ add_overflows(acc.val, term),
               val |-> wrapping_add(acc.val, term)]
          Continue(next) == ChecksumLoop(cfg, components, i, j + cfg.c, next)
      IN  CHOOSE out \in
              {Continue(next) :
                  next \in {Accumulate(term) :
                               term \in {wrapping_shl_mul(i, diff)}}} : TRUE

\* TLFC::calculate_full_checksum.  Built with overflow checks (the debug
\* profile) an operation that leaves the 64 bits panics; built without them
\* (the release profile) it wraps and the loop goes on.
calculate_full_checksum(cfg, components, overflow_checks) ==
    LET Normalize(checksums) ==
          IF overflow_checks /\ \E i \in 1..cfg.c : checksums[i].overflowed
          THEN Panicked
          ELSE Emit([i \in 1..cfg.c |-> U64Mod(checksums[i].val, cfg.w) + 1])
    IN  CHOOSE out \in
              {Normalize(checksums) :
                  checksums \in
                      {SubSeq([i \in 1..cfg.c |->
                                 ChecksumLoop(cfg, components, i - 1, i - 1,
                                              [overflowed |-> i - 1 >= WordBits,
                                               val |-> <<0, 0, 0, 0, 0, 0, 0, 0>>])],
                              1, cfg.c)}} : TRUE

\* TLFC::message_to_wots_digest: the vertex followed by the c checksums
TLFC_message_to_wots_digest(cfg, message, randomness, overflow_checks) ==
    LET Join(vertex, checksums) ==
          IF checksums.kind = "panic" THEN Panicked
          ELSE Emit(vertex.val \o checksums.val)
        Digest(vertex) ==
          IF vertex.kind = "panic" THEN Panicked
          ELSE Join(vertex, calculate_full_checksum(cfg, vertex.val, overflow_checks))
    IN  Digest(map_to_top_layers(cfg, HashToValue(Hash(message \o randomness))))

\* signature_chains() of each encoder
signature_chains(cfg) ==
    IF cfg.kind = "TSL" THEN cfg.v
    ELSE IF cfg.kind = "TL1C" THEN cfg.v + 1
    ELSE cfg.v + cfg.c

\* <E as EncodingScheme>::encode: TSL's substitutes the sink vertex for an
\* error, TL1C's and TLFC's return the vertex of map_to_top_layers; none of
\* them appends a checksum
EncodingScheme_encode(cfg, message, randomness) ==
    IF cfg.kind = "TSL" THEN TSL_encode_vertex(cfg, message, randomness)
    ELSE map_to_top_layers(cfg, HashToValue(Hash(message \o randomness)))

\* WotsKeypair::sign(message, encoding): randomness of 32 zero bytes, the
\* vertex of encoding.encode, each component less one (saturating), sign_raw
wots_sign(key, params, cfg, message) ==
    LET Digits(vertex) ==
          IF vertex.kind = "panic" THEN [kind |-> "panic", chains |-> <<>>]
          ELSE sign_raw(key, params,
                        [i \in 1..Len(vertex.val) |->
                            IF vertex.val[i] = 0 THEN 0 ELSE vertex.val[i] - 1])
    IN  Digits(EncodingScheme_encode(cfg, message, [i \in 1..32 |-> 0]))

-----------------------------------------------------------------------------
(* The WOTS harness: a key is generated, a digit vector is drawn or        *)
(* emitted by an encoder, signed with sign_raw and verified.               *)

NoEnc == [kind |-> "none", w |-> 0, v |-> 0, d0 |-> 0, c |-> 0]

NoSig == [kind |-> "none", chains |-> <<>>]

NoMsg == [message |-> <<>>, randomness |-> <<>>]

NoChain == [input |-> <<>>, a |-> 0, b |-> 0, zero |-> <<>>, whole |-> <<>>, split |-> <<>>]

\* the messages and the randomness strings the callers pass
Messages == {<<>>} \cup {<<b>> : b \in 1..MaxMsg}

Randomness == {<<>>} \cup {<<b, b>> : b \in 1..MaxMsg}

IdleWots ==
    /\ wparams = [w |-> 0, chains |-> 0]
    /\ wkey = [sk |-> <<>>, pk |-> <<>>]
    /\ wenc = NoEnc
    /\ wmsg = NoMsg
    /\ wdigits = <<>>
    /\ wsig = NoSig
    /\ wverdict = FALSE
    /\ wclaimed = <<>>
    /\ wchain = NoChain
    /\ wpc = "idle"

IdleMap ==
    /\ hw = 0
    /\ hv = 0
    /\ pc = "idle"
    /\ argD = 0
    /\ argInt = 0
    /\ argVtx = NoVtx
    /\ resVtx = ErrVtx("none")
    /\ resInt = ErrInt("none")
    /\ resCount = 0

\* WotsParams::new(w, chains) and WotsKeypair::generate for the k-th draw
KeyedWith(enc, w, chains, k) ==
    /\ wparams = [w |-> w, chains |-> chains]
    /\ wkey = WotsGenerate([w |-> w, chains |-> chains], k)
    /\ wenc = enc
    /\ wmsg = NoMsg
    /\ wdigits = <<>>
    /\ wsig = NoSig
    /\ wverdict = FALSE
    /\ wclaimed = <<>>
    /\ wchain = NoChain
    /\ wpc = "keyed"

\* a key with no encoder: the caller supplies the digits
InitWotsRaw ==
    \E w \in 2..MaxW, chains \in 1..MaxChains, k \in 1..MaxKeys :
        KeyedWith(NoEnc, w, chains, k)

\* TSL::new(TSLConfig::with_params(w, v, d0)) and a key of its shape
InitWotsTSL ==
    \E w \in 2..MaxW, v \in 1..MaxV, d0 \in 0..(MaxV * MaxW), k \in 1..MaxKeys :
        LET cfg == [kind |-> "TSL", w |-> w, v |-> v, d0 |-> d0, c |-> 0]
        IN  /\ TSLConfig_with_params(w, v, d0)
            /\ TSL_new(cfg)
            /\ KeyedWith(cfg, w, signature_chains(cfg), k)

\* TL1C::new(TL1CConfig::with_params(w, v, d0)) and a key of its shape
InitWotsTL1C ==
    \E w \in 2..MaxW, v \in 1..MaxV, d0 \in 0..(MaxV * MaxW), k \in 1..MaxKeys :
        LET cfg == [kind |-> "TL1C", w |-> w, v |-> v, d0 |-> d0, c |-> 0]
        IN  /\ TL1CConfig_with_params(w, v, d0)
            /\ total_layer_size(cfg) > 0
            /\ KeyedWith(cfg, w, signature_chains(cfg), k)

\* TLFC::new(TLFCConfig::with_params(w, v, d0, c)) and a key of its shape
InitWotsTLFC ==
    \E w \in 2..MaxW, v \in 1..MaxV, d0 \in 0..(MaxV * MaxW),
       c \in 1..MaxChains, k \in 1..MaxKeys :
        LET cfg == [kind |-> "TLFC", w |-> w, v |-> v, d0 |-> d0, c |-> c]
        IN  /\ TLFCConfig_with_params(w, v, d0, c)
            /\ total_layer_size(cfg) > 0
            /\ KeyedWith(cfg, w, signature_chains(cfg), k)

\* a caller's digit vector: any vector of the key's length over [0, w], and one too long
DrawDigits ==
    /\ wpc = "keyed"
    /\ wenc.kind = "none"
    /\ \E x \in [1..wparams.chains -> 0..wparams.w]
                  \cup {[i \in 1..(wparams.chains + 1) |-> 0]} :
         wdigits' = x
    /\ wpc' = "digits"
    /\ UNCHANGED <<wparams, wkey, wenc, wmsg, wsig, wverdict, wclaimed, wchain>>

\* the digits an encoder emitted become the input of sign_raw, unless it panicked
Emitted(out, m, r) ==
    /\ wmsg' = [message |-> m, randomness |-> r]
    /\ wdigits' = out.val
    /\ wpc' = IF out.kind = "ok" THEN "digits" ELSE "encode_panic"
    /\ UNCHANGED <<wparams, wkey, wenc, wsig, wverdict, wclaimed, wchain>>

\* tsl.encode(m, r).components()
EncodeTSL ==
    /\ wpc = "keyed"
    /\ wenc.kind = "TSL"
    /\ \E m \in Messages, r \in Randomness :
         \E out \in {TSL_encode_vertex(wenc, m, r)} : Emitted(out, m, r)

\* tl1c.message_to_wots_digest(m, r)
EncodeTL1C ==
    /\ wpc = "keyed"
    /\ wenc.kind = "TL1C"
    /\ \E m \in Messages, r \in Randomness :
         \E out \in {TL1C_message_to_wots_digest(wenc, m, r)} : Emitted(out, m, r)

\* tlfc.message_to_wots_digest(m, r)
EncodeTLFC ==
    /\ wpc = "keyed"
    /\ wenc.kind = "TLFC"
    /\ \E m \in Messages, r \in Randomness, overflow_checks \in BOOLEAN :
         \E out \in {TLFC_message_to_wots_digest(wenc, m, r, overflow_checks)} :
            Emitted(out, m, r)

\* keypair.sign(m, &encoder) on the key of signature_chains() chains
WotsSign ==
    /\ wpc = "keyed"
    /\ wenc.kind # "none"
    /\ \E m \in Messages :
         /\ wmsg' = [message |-> m, randomness |-> [i \in 1..32 |-> 0]]
         /\ wsig' = wots_sign(wkey, wparams, wenc, m)
    /\ wpc' = "sign"
    /\ UNCHANGED <<wparams, wkey, wenc, wdigits, wverdict, wclaimed, wchain>>

\* keypair.sign_raw(&digits)
WotsSignRaw ==
    /\ wpc = "digits"
    /\ wsig' = sign_raw(wkey, wparams, wdigits)
    /\ wpc' = "signed"
    /\ UNCHANGED <<wparams, wkey, wenc, wmsg, wdigits, wverdict, wclaimed, wchain>>

\* keypair.public_key().verify(&digits, &signature) on the same digits
WotsVerify ==
    /\ wpc = "signed"
    /\ wsig.kind = "ok"
    /\ wverdict' = wots_verify(wkey.pk, wparams, wdigits, wsig.chains)
    /\ wpc' = "verified"
    /\ UNCHANGED <<wparams, wkey, wenc, wmsg, wdigits, wsig, wclaimed, wchain>>

\* keypair.public_key().verify(&other, &signature) for a caller's key: another
\* vector of [0, w-1]^L
WotsVerifyOther ==
    /\ wpc = "signed"
    /\ wenc.kind = "none"
    /\ wsig.kind = "ok"
    /\ \E other \in [1..wparams.chains -> 0..(wparams.w - 1)] \ {wdigits} :
         /\ wclaimed' = other
         /\ wverdict' = wots_verify(wkey.pk, wparams, other, wsig.chains)
    /\ wpc' = "verified_other"
    /\ UNCHANGED <<wparams, wkey, wenc, wmsg, wdigits, wsig, wchain>>

\* the inputs hash_chain is called on: the secret chain values of the key, the
\* 32 bytes of 0x42 of the unit test, one byte and the empty input
ChainInputs ==
    {wkey.sk[i] : i \in 1..wparams.chains}
        \cup {[j \in 1..HashLen |-> 66], <<66>>, <<>>}

\* hash_chain(x, 0), hash_chain(x, a + b) and hash_chain(hash_chain(x, b), a)
CallHashChain ==
    /\ wpc = "keyed"
    /\ wenc.kind = "none"
    /\ \E x \in ChainInputs, a \in 0..MaxW, b \in 0..MaxW :
         wchain' = [input |-> x, a |-> a, b |-> b,
                    zero |-> hash_chain(x, 0),
                    whole |-> hash_chain(x, a + b),
                    split |-> hash_chain(hash_chain(x, b), a)]
    /\ wpc' = "hash_chain"
    /\ UNCHANGED <<wparams, wkey, wenc, wmsg, wdigits, wsig, wverdict, wclaimed>>

NextWots ==
    \/ DrawDigits
    \/ EncodeTSL
    \/ EncodeTL1C
    \/ EncodeTLFC
    \/ WotsSign
    \/ WotsSignRaw
    \/ WotsVerify
    \/ WotsVerifyOther
    \/ CallHashChain


-----------------------------------------------------------------------------
(* xmss/wots_plus.rs: deterministic WOTS+ leaves with base-w digits *)

\* (x as u32).to_be_bytes()
U32BE(x) ==
    <<(x \div 16777216) % 256, (x \div 65536) % 256, (x \div 256) % 256, x % 256>>

RECURSIVE Concat(_)
Concat(seqs) == IF seqs = <<>> THEN <<>> ELSE Head(seqs) \o Concat(Tail(seqs))

\* (w as f64).log2() as u32
RECURSIVE FloorLog2(_)
FloorLog2(w) == IF w < 2 THEN 0 ELSE 1 + FloorLog2(w \div 2)

\* the inner while loop: emit digits while enough bits are buffered
RECURSIVE BaseWDrain(_, _, _)
BaseWDrain(st, log_w, out_len) ==
    IF st.bits >= log_w /\ Len(st.result) < out_len
    THEN BaseWDrain([result |-> Append(st.result, st.total % Pow(2, log_w)),
                     total |-> st.total \div Pow(2, log_w),
                     bits |-> st.bits - log_w], log_w, out_len)
    ELSE st

\* the for loop over the bytes, left by break once out_len digits exist
RECURSIVE BaseWBytes(_, _, _, _, _)
BaseWBytes(bytes, i, st, log_w, out_len) ==
    IF i > Len(bytes) THEN st
    ELSE
      LET absorbed == [st EXCEPT !.total = st.total + bytes[i] * Pow(2, st.bits),
                                 !.bits = st.bits + 8]
          drained == BaseWDrain(absorbed, log_w, out_len)
      IN  IF Len(drained.result) >= out_len THEN drained
          ELSE BaseWBytes(bytes, i + 1, drained, log_w, out_len)

\* the padding loop: leftover bits first, then zeros
RECURSIVE BaseWPad(_, _, _)
BaseWPad(st, log_w, out_len) ==
    IF Len(st.result) >= out_len THEN st
    ELSE IF st.bits > 0
    THEN BaseWPad([result |-> Append(st.result, st.total % Pow(2, log_w)),
                   total |-> st.total \div Pow(2, log_w),
                   bits |-> IF st.bits >= log_w THEN st.bits - log_w ELSE 0],
                  log_w, out_len)
    ELSE BaseWPad([st EXCEPT !.result = Append(st.result, 0)], log_w, out_len)

\* base_w_from_bytes (the same function in wots_plus.rs and core.rs)
base_w_from_bytes(bytes, w, out_len) ==
    LET log_w == FloorLog2(w)
        start == [result |-> <<>>, total |-> 0, bits |-> 0]
    IN  BaseWPad(BaseWBytes(bytes, 1, start, log_w, out_len), log_w, out_len).result

\* WOTSPlusParams::from_xmss_params, standard digits: WotsParams::new(w, len)
from_xmss_params(params) ==
    [w |-> params.winternitz_parameter, chains |-> params.len]

\* WOTSPlusParams::generate_deterministic_keypair
generate_deterministic_keypair(params, seed, address) ==
    CHOOSE key \in
        {[sk |-> sk, pk |-> [i \in 1..params.chains |-> hash_chain(sk[i], params.w - 1)]] :
            sk \in {[i \in 1..params.chains |->
                        Hash(seed \o address \o U32BE(i - 1))]}} : TRUE

\* WOTSPlusKeypair::sign with HypercubeScheme::None
wots_plus_sign(key, params, message_digest) ==
    CHOOSE sig \in
        {sign_raw(k, params, digest_values) :
            k \in {key},
            digest_values \in {base_w_from_bytes(message_digest, params.w,
                                                 params.chains)}} : TRUE

\* WOTSPlusKeypair::public_key_hash
public_key_hash(key) == Hash(Concat(key.pk))

-----------------------------------------------------------------------------
(* xmss/tree.rs *)

hash_tree_node(public_seed, height, index, left, right) ==
    Hash(<<1>> \o public_seed \o U32BE(height) \o U32BE(index) \o left \o right)

\* the level above `level`, which sits at height h
LevelAbove(level, h, public_seed) ==
    [i \in 1..(Len(level) \div 2) |->
        hash_tree_node(public_seed, h, i - 1, level[2 * i - 1], level[2 * i])]

\* `level` (at height h) and the levels above it, bottom-up
RECURSIVE BuildLevels(_, _, _, _)
BuildLevels(level, h, height, public_seed) ==
    IF h >= height THEN <<level>>
    ELSE CHOOSE levels \in
             {<<level>> \o BuildLevels(up, h + 1, height, public_seed) :
                 up \in {LevelAbove(level, h, public_seed)}} : TRUE

\* (n as f64).log2().ceil() as usize
CeilLog2(n) == IF n <= 1 THEN 0 ELSE 1 + FloorLog2(n - 1)

\* MerkleTree::build; nodes[h + 1] is the level at height h
MerkleTree_build(leaves, public_seed) ==
    LET height == CeilLog2(Len(leaves))
    IN  [nodes |-> BuildLevels(leaves, 0, height, public_seed),
         height |-> height]

\* MerkleTree::root
tree_root(tree) == tree.nodes[tree.height + 1][1]

\* a path that records the node itself in place of its sibling
sibling_index_self(index) == index

\* the sibling of a node: index ^ 1
sibling_index(index) == IF index % 2 = 0 THEN index + 1 ELSE index - 1

\* MerkleTree::authentication_path
authentication_path(tree, leaf_index) ==
    [h \in 1..tree.height |->
        tree.nodes[h][sibling_index(leaf_index \div Pow(2, h - 1)) + 1]]

\* AuthPath::compute_root
RECURSIVE ComputeRootFrom(_, _, _, _, _)
ComputeRootFrom(auth_nodes, h, node, index, public_seed) ==
    IF h > Len(auth_nodes) THEN node
    ELSE
      LET left == IF index % 2 = 0 THEN node ELSE auth_nodes[h]
          right == IF index % 2 = 0 THEN auth_nodes[h] ELSE node
      IN  ComputeRootFrom(auth_nodes, h + 1,
                          hash_tree_node(public_seed, h - 1, index \div 2, left, right),
                          index \div 2, public_seed)

\* a verifier that ignores the leaf index and keeps the running node on the left
compute_root_as_leftmost(auth_nodes, leaf, leaf_index, public_seed) ==
    ComputeRootFrom(auth_nodes, 1, leaf, 0, public_seed)

compute_root(auth_nodes, leaf, leaf_index, public_seed) ==
    ComputeRootFrom(auth_nodes, 1, leaf, leaf_index, public_seed)

-----------------------------------------------------------------------------
(* xmss/core.rs and xmss/keypair.rs *)

\* XMSSParams::new: the three assertions
XMSSParams_new(tree_height, winternitz_parameter, len) ==
    tree_height > 0 /\ winternitz_parameter > 1 /\ len > 0

\* the leaves of the tree: the public-key hash of the WOTS+ key of every address
XMSSLeaves(params, sk_seed) ==
    [i \in 1..Pow(2, params.tree_height) |->
        public_key_hash(generate_deterministic_keypair(from_xmss_params(params),
                                                       sk_seed, U32BE(i - 1)))]

\* XMSSPublicKey::new and XMSSPrivateKey::new(0, ...) at the end of key generation
NewKeypair(sk_seed, sk_prf, public_seed, root) ==
    [public_key |-> [root |-> root, public_seed |-> public_seed],
     private_key |-> [leaf_index |-> 0, sk_seed |-> sk_seed, sk_prf |-> sk_prf,
                      public_seed |-> public_seed, root |-> root]]

\* XMSSKeypair::generate_from_seed
generate_from_seed(params, seed) ==
    CHOOSE keypair \in
        {NewKeypair(SubSeq(seed, 1, 32), SubSeq(seed, 33, 64), SubSeq(seed, 65, 96), root) :
            root \in {tree_root(MerkleTree_build(XMSSLeaves(params, SubSeq(seed, 1, 32)),
                                                 SubSeq(seed, 65, 96)))}} : TRUE

\* a counter that skips an index
increment_leaf_index_by_two(private_key) ==
    [private_key EXCEPT !.leaf_index = private_key.leaf_index + 2]

\* XMSSPrivateKey::increment_leaf_index
increment_leaf_index(private_key) ==
    [private_key EXCEPT !.leaf_index = private_key.leaf_index + 1]

NoXSig == [leaf_index |-> 0, randomness |-> <<>>, wots_signature |-> <<>>, auth_path |-> <<>>]

\* an exhaustion branch that still advances the index
sign_exhausted_advancing(keypair) ==
    [kind |-> "panic", err |-> "XMSS key exhausted", sig |-> NoXSig,
     keypair |-> [keypair EXCEPT !.private_key.leaf_index = @ + 1]]

\* the exhaustion branch of sign: panic before anything is computed or changed
sign_exhausted(keypair) ==
    [kind |-> "panic", err |-> "XMSS key exhausted", sig |-> NoXSig, keypair |-> keypair]

\* a sign that also replaces sk_prf by the randomness just used
SignatureOf_ratcheting(keypair, leaf_idx, randomness, wots_signature, auth_path) ==
    IF wots_signature.kind = "panic"
    THEN [kind |-> "panic", err |-> "sign_raw", sig |-> NoXSig, keypair |-> keypair]
    ELSE [kind |-> "ok", err |-> "none",
          sig |-> [leaf_index |-> leaf_idx, randomness |-> randomness,
                   wots_signature |-> wots_signature.chains,
                   auth_path |-> auth_path],
          keypair |-> [keypair EXCEPT
                          !.private_key.leaf_index = @ + 1,
                          !.private_key.sk_prf = randomness]]

\* the end of sign: increment_leaf_index, then XMSSSignature::new
SignatureOf(keypair, leaf_idx, randomness, wots_signature, auth_path) ==
    IF wots_signature.kind = "panic"
    THEN [kind |-> "panic", err |-> "sign_raw", sig |-> NoXSig, keypair |-> keypair]
    ELSE [kind |-> "ok", err |-> "none",
          sig |-> [leaf_index |-> leaf_idx, randomness |-> randomness,
                   wots_signature |-> wots_signature.chains,
                   auth_path |-> auth_path],
          keypair |-> [keypair EXCEPT
                          !.private_key = increment_leaf_index(keypair.private_key)]]

\* the middle of sign: the message digest, the WOTS+ signature of leaf leaf_idx,
\* the rebuilt tree and its authentication path; each is computed once
SignLeaf(keypair, params, leaf_idx, randomness, message) ==
    CHOOSE out \in
        {SignatureOf(keypair, leaf_idx, randomness, wots_signature, auth_path) :
            wots_signature \in
                {wots_plus_sign(
                    generate_deterministic_keypair(from_xmss_params(params),
                                                   keypair.private_key.sk_seed,
                                                   U32BE(leaf_idx)),
                    from_xmss_params(params),
                    Hash(randomness \o keypair.private_key.root \o U32BE(leaf_idx)
                         \o message))},
            auth_path \in
                {authentication_path(
                    MerkleTree_build(XMSSLeaves(params, keypair.private_key.sk_seed),
                                     keypair.private_key.public_seed),
                    leaf_idx)}} : TRUE

\* XMSSKeypair::sign: the outcome and the keypair after the call
xmss_sign(keypair, params, message) ==
    IF keypair.private_key.leaf_index >= Pow(2, params.tree_height)
    THEN sign_exhausted(keypair)
    ELSE CHOOSE out \in
             {SignLeaf(keypair, params, keypair.private_key.leaf_index, randomness,
                       message) :
                 randomness \in {Hash(keypair.private_key.sk_prf
                                      \o U32BE(keypair.private_key.leaf_index)
                                      \o message)}} : TRUE

\* the chains of the WOTS public key, rebuilt from the signature and the digits
ReconstructChains(wots_signature, w, message_values) ==
    [i \in 1..Len(wots_signature) |->
        hash_chain(wots_signature[i], w - 1 - message_values[i])]

\* compute_wots_public_key_hash_with_params, standard base-w digits
compute_wots_public_key_hash_with_params(message_digest, wots_signature, params) ==
    CHOOSE h \in
        {Hash(Concat(ReconstructChains(wots_signature, params.winternitz_parameter,
                                       message_values))) :
            message_values \in
                {base_w_from_bytes(message_digest, params.winternitz_parameter,
                                   Len(wots_signature))}} : TRUE

\* XMSSPublicKey::verify
xmss_verify(public_key, message, signature, params) ==
    compute_root(signature.auth_path,
                 compute_wots_public_key_hash_with_params(
                     Hash(signature.randomness \o public_key.root
                          \o U32BE(signature.leaf_index) \o message),
                     signature.wots_signature, params),
                 signature.leaf_index, public_key.public_seed)
      = public_key.root

\* XMSSPrivateKey::export_state
export_state(private_key) ==
    [leaf_index |-> private_key.leaf_index, sk_seed |-> private_key.sk_seed,
     sk_prf |-> private_key.sk_prf, public_seed |-> private_key.public_seed,
     root |-> private_key.root]

\* a restore that starts the signer at index 0 again
restore_from_zero(state) ==
    [public_key |-> [root |-> state.root, public_seed |-> state.public_seed],
     private_key |-> [leaf_index |-> 0, sk_seed |-> state.sk_seed,
                      sk_prf |-> state.sk_prf, public_seed |-> state.public_seed,
                      root |-> state.root]]

\* XMSSKeypair::restore
restore(state) ==
    [public_key |-> [root |-> state.root, public_seed |-> state.public_seed],
     private_key |-> [leaf_index |-> state.leaf_index, sk_seed |-> state.sk_seed,
                      sk_prf |-> state.sk_prf, public_seed |-> state.public_seed,
                      root |-> state.root]]

-----------------------------------------------------------------------------
(* xmss/core.rs, hypercube mode: the parameters, and the TSL instance each *)
(* side rebuilds from the alphabet size w of the parameters                *)

\* XMSSParams::new_with_hypercube
XMSSParams_new_with_hypercube(tree_height, security_bits, use_hypercube) ==
    IF tree_height <= 0 \/ security_bits \notin {128, 160, 256} THEN Panicked
    ELSE IF ~use_hypercube
    THEN Emit([tree_height |-> tree_height, winternitz_parameter |-> 67, len |-> 67,
               use_hypercube |-> FALSE])
    ELSE CHOOSE out \in
             {IF tsl.kind = "panic" THEN Panicked
              ELSE Emit([tree_height |-> tree_height,
                         winternitz_parameter |-> tsl.val.w, len |-> tsl.val.v,
                         use_hypercube |-> TRUE]) :
                 tsl \in {TSL_of_security_bits(security_bits)}} : TRUE

\* WOTSPlusParams::from_xmss_params, hypercube mode: the security_bits matched
\* from w; generate_keypair builds TSL::new(TSLConfig::new(security_bits))
wots_plus_security_bits(w) ==
    IF w = 64 THEN 128 ELSE IF w = 80 THEN 160 ELSE IF w = 128 THEN 256 ELSE 128

\* WOTSPlusParams::from_xmss_params, hypercube mode: WotsParams::new(w, chains)
from_xmss_params_hypercube(params) ==
    LET w == params.winternitz_parameter
    IN  IF w \in {64, 80, 128} THEN [w |-> w, chains |-> w]
        ELSE [w |-> w, chains |-> params.len]

\* compute_wots_public_key_hash_with_params, hypercube mode: the
\* security_bits matched from w before TSL::new(TSLConfig::new(security_bits))
verify_security_bits(w) ==
    IF w = 8 THEN 128 ELSE IF w = 6 THEN 160 ELSE IF w = 4 THEN 256 ELSE 128

-----------------------------------------------------------------------------
(* xmss/signature.rs; leaf_index is a usize, kept as 8 little-endian bytes *)

\* XMSSSignature::new: the randomness must be 32 bytes
XMSSSignature_new(leaf_index, randomness, wots_signature, auth_path) ==
    IF Len(randomness) # HashLen THEN Panicked
    ELSE Emit([leaf_index |-> leaf_index, randomness |-> randomness,
               wots_signature |-> wots_signature, auth_path |-> auth_path])

\* (leaf_index as u32).to_be_bytes(): the low four bytes, most significant first
leaf_index_as_u32_be(leaf_index) ==
    <<leaf_index[4], leaf_index[3], leaf_index[2], leaf_index[1]>>

\* XMSSSignature::to_bytes
to_bytes(signature) ==
    leaf_index_as_u32_be(signature.leaf_index) \o signature.randomness
        \o Concat(signature.wots_signature) \o Concat(signature.auth_path)

\* XMSSSignature::from_bytes
from_bytes(bytes, params) ==
    LET hash_size == HashLen
        expected_size == 4 + hash_size + params.len * hash_size
                           + params.tree_height * hash_size
        Slice(offset) == SubSeq(bytes, offset + 1, offset + hash_size)
    IN  IF Len(bytes) # expected_size
        THEN [ok |-> FALSE, val |-> <<>>, err |-> "Invalid signature length"]
        ELSE Ok([leaf_index |-> <<bytes[4], bytes[3], bytes[2], bytes[1], 0, 0, 0, 0>>,
                 randomness |-> Slice(4),
                 wots_signature |->
                     [i \in 1..params.len |-> Slice(4 + hash_size + (i - 1) * hash_size)],
                 auth_path |->
                     [i \in 1..params.tree_height |->
                         Slice(4 + hash_size + params.len * hash_size
                                 + (i - 1) * hash_size)]])

-----------------------------------------------------------------------------
(* xmss/core.rs: verify on a signature object, in both modes, with the     *)
(* outcomes an aborting call has                                           *)

\* the leaf index of a signature as a number; the objects verified have one below 2^24
LeafIndexValue(leaf_index) == leaf_index[1] + 256 * leaf_index[2] + 65536 * leaf_index[3]

\* message_values of compute_wots_public_key_hash_with_params: the components
\* of the vertex TSL::encode returned, each less one (saturating), in hypercube
\* mode; the base-w digits of the digest, one per chain value, otherwise
VerifyMessageValues(message_digest, wots_signature, params, vertex) ==
    IF params.use_hypercube
    THEN [i \in 1..Len(vertex) |-> IF vertex[i] = 0 THEN 0 ELSE vertex[i] - 1]
    ELSE base_w_from_bytes(message_digest, params.winternitz_parameter,
                           Len(wots_signature))

\* the chain loop of compute_wots_public_key_hash_with_params: the first chain
\* at which message_values[i] is out of bounds or w - 1 - x_i is below zero;
\* 0 when the loop runs to its end
FirstAbort(chains, w, message_values) ==
    LET bad == {i \in 1..chains : i > Len(message_values) \/ message_values[i] > w - 1}
    IN  IF bad = {} THEN 0 ELSE CHOOSE i \in bad : \A j \in bad : i <= j

\* XMSSPublicKey::verify: "accept" and "reject" are the bool returned; "panic"
\* is an index out of bounds or a checked subtraction below zero; "hang" is the
\* wrapped subtraction of a build without overflow checks, a chain of about
\* 2^64 hashes
XMSSPublicKey_verify(public_key, message, signature, params, vertex, overflow_checks) ==
    LET w == params.winternitz_parameter
        Outcome(message_values) ==
            LET stop == FirstAbort(Len(signature.wots_signature), w, message_values)
            IN  IF stop # 0
                THEN IF stop > Len(message_values) \/ overflow_checks
                     THEN "panic" ELSE "hang"
                ELSE IF compute_root(
                            signature.auth_path,
                            Hash(Concat(ReconstructChains(signature.wots_signature, w,
                                                          message_values))),
                            LeafIndexValue(signature.leaf_index),
                            public_key.public_seed) = public_key.root
                     THEN "accept" ELSE "reject"
    IN  CHOOSE o \in
            {Outcome(message_values) :
                message_values \in
                    {VerifyMessageValues(
                        Hash(signature.randomness \o public_key.root
                             \o leaf_index_as_u32_be(signature.leaf_index) \o message),
                        signature.wots_signature, params, vertex)}} : TRUE

\* a vertex of layer d: the d steps are taken from the first components on
RECURSIVE LayerVertexFromFirst(_, _, _)
LayerVertexFromFirst(w, v, d) ==
    IF v = 0 THEN <<>>
    ELSE <<w - Min(d, w - 1)>> \o LayerVertexFromFirst(w, v - 1, d - Min(d, w - 1))

\* a vertex of layer d: the d steps are taken from the last components on
LayerVertexFromLast(w, v, d) ==
    [i \in 1..v |-> LayerVertexFromFirst(w, v, d)[v + 1 - i]]

-----------------------------------------------------------------------------
(* The XMSS harness: one key generation; the caller signs, exports the     *)
(* state, restores signers from exported states, and verifies.             *)

NoLast == [signer |-> 0, pre |-> 0, message |-> <<>>, kind |-> "none",
           err |-> "none", sig |-> NoXSig]

IdleXmss ==
    /\ xparams = [tree_height |-> 0, winternitz_parameter |-> 0, len |-> 0,
                  use_hypercube |-> FALSE]
    /\ signers = <<>>
    /\ xsaved = {}
    /\ xused = {}
    /\ xcalls = <<>>
    /\ xlast = NoLast
    /\ xverdict = FALSE
    /\ xpc = "idle"

\* XMSSKeypair::generate(&XMSSParams::new(h, w, len)) with the k-th seed drawn
InitXmssKey ==
    /\ \E h \in 1..MaxH, w \in 2..MaxW, len \in 1..MaxChains, k \in 1..MaxSeeds :
         /\ XMSSParams_new(h, w, len)
         /\ xparams = [tree_height |-> h, winternitz_parameter |-> w, len |-> len,
                       use_hypercube |-> FALSE]
         /\ signers = <<generate_from_seed(
                          [tree_height |-> h, winternitz_parameter |-> w, len |-> len,
                           use_hypercube |-> FALSE],
                          random_bytes(k, 0) \o random_bytes(k, 1) \o random_bytes(k, 2))>>
    /\ xsaved = {}
    /\ xused = {}
    /\ xcalls = <<[from |-> "generate_from_seed", calls |-> 0, ok |-> 0]>>
    /\ xlast = NoLast
    /\ xverdict = FALSE
    /\ xpc = "generate"

\* what a sign call on signer s leaves behind, given its outcome
Signed(s, m, out) ==
    /\ signers' = [signers EXCEPT ![s] = out.keypair]
    /\ xlast' = [signer |-> s, pre |-> signers[s].private_key.leaf_index,
                 message |-> m, kind |-> out.kind, err |-> out.err, sig |-> out.sig]
    /\ xused' = IF out.kind = "ok" THEN xused \cup {<<out.sig.leaf_index, m, out.sig>>}
                ELSE xused
    /\ xcalls' = [xcalls EXCEPT ![s] =
                     [@ EXCEPT !.calls = @ + 1,
                               !.ok = IF out.kind = "ok" THEN @ + 1 ELSE @]]
    /\ xverdict' = FALSE
    /\ xpc' = "sign"
    /\ UNCHANGED <<xparams, xsaved>>

\* signer.sign(m): at most MaxExhausted calls are made on an exhausted signer
XmssSign ==
    \E s \in 1..Len(signers), m \in Messages :
        /\ \/ signers[s].private_key.leaf_index < Pow(2, xparams.tree_height)
           \/ xcalls[s].calls - xcalls[s].ok < MaxExhausted
        /\ \E out \in {xmss_sign(signers[s], xparams, m)} : Signed(s, m, out)

\* signer.private_key().export_state()
XmssExportState ==
    \E s \in 1..Len(signers) :
        /\ export_state(signers[s].private_key) \notin xsaved
        /\ Cardinality(xsaved) < MaxSaved
        /\ xsaved' = xsaved \cup {export_state(signers[s].private_key)}
        /\ xlast' = NoLast
        /\ xverdict' = FALSE
        /\ xpc' = "export_state"
        /\ UNCHANGED <<xparams, signers, xused, xcalls>>

\* XMSSKeypair::restore(&params, state): a further signer of the same key
XmssRestore ==
    \E state \in xsaved :
        /\ Len(signers) < MaxSigners
        /\ signers' = Append(signers, restore(state))
        /\ xcalls' = Append(xcalls, [from |-> "restore", calls |-> 0, ok |-> 0])
        /\ xlast' = NoLast
        /\ xverdict' = FALSE
        /\ xpc' = "restore"
        /\ UNCHANGED <<xparams, xsaved, xused>>

\* XMSSKeypair::generate_from_seed(&params, &seed) once more, on the seed the
\* first signer was generated from
XmssGenerateFromSeed ==
    /\ Len(signers) < MaxSigners
    /\ signers' = Append(signers,
                         generate_from_seed(xparams,
                                            signers[1].private_key.sk_seed
                                                \o signers[1].private_key.sk_prf
                                                \o signers[1].private_key.public_seed))
    /\ xcalls' = Append(xcalls, [from |-> "generate_from_seed", calls |-> 0, ok |-> 0])
    /\ xlast' = NoLast
    /\ xverdict' = FALSE
    /\ xpc' = "generate_from_seed"
    /\ UNCHANGED <<xparams, xsaved, xused>>

\* public_key.verify(m, &signature, &params) on the signature just returned
XmssVerify ==
    /\ xpc = "sign"
    /\ xlast.kind = "ok"
    /\ xverdict' = xmss_verify(signers[xlast.signer].public_key, xlast.message,
                               xlast.sig, xparams)
    /\ xpc' = "verify"
    /\ UNCHANGED <<xparams, signers, xsaved, xused, xcalls, xlast>>

NextXmss ==
    \/ XmssSign
    \/ XmssExportState
    \/ XmssRestore
    \/ XmssVerify

\* the callers of the determinism test: signers generated from one seed, each
\* signing on its own
NextTwin ==
    \/ XmssGenerateFromSeed
    \/ XmssSign


-----------------------------------------------------------------------------
(* The signature harness: a caller holds a signature object, from sign or  *)
(* from XMSSSignature::new on parts of their choosing, serialises and      *)
(* parses it, and hands it to verify; in hypercube mode the parameters     *)
(* come from XMSSParams::new_with_hypercube.                               *)

NoSigCall == [security_bits |-> 0, sign_params |-> [w |-> 0, chains |-> 0],
              sign_tsl |-> Panicked, verify_tsl |-> Panicked, message |-> <<>>,
              bytes |-> <<>>, parsed |-> Ok(<<>>), outcome |-> "none", kind |-> "none"]

NoSigObject == [leaf_index |-> U64FromUsize(0), randomness |-> <<>>,
                wots_signature |-> <<>>, auth_path |-> <<>>]

IdleSig ==
    /\ sobj = NoSigObject
    /\ scall = NoSigCall
    /\ spc = "idle"

ZeroHash == [j \in 1..HashLen |-> 0]

\* XMSSParams::new_with_hypercube(h, security_bits, true)
SigNewWithHypercube ==
    /\ xpc = "idle"
    /\ spc = "idle"
    /\ \E h \in 1..MaxH, security_bits \in {128, 160, 256} :
         \E out \in {XMSSParams_new_with_hypercube(h, security_bits, TRUE)} :
            /\ xparams' = IF out.kind = "ok" THEN out.val ELSE xparams
            /\ scall' = [NoSigCall EXCEPT !.security_bits = security_bits,
                                          !.kind = out.kind]
    /\ spc' = "new_with_hypercube"
    /\ UNCHANGED <<sobj, signers, xsaved, xused, xcalls, xlast, xverdict, xpc>>

\* the encoder instances of the two sides for the parameters just built:
\* WOTSPlusParams::from_xmss_params and generate_keypair for the signer,
\* compute_wots_public_key_hash_with_params for the verifier
SigHypercubeEncoders ==
    /\ spc = "new_with_hypercube"
    /\ scall.kind = "ok"
    /\ scall' = [scall EXCEPT
                    !.sign_params = from_xmss_params_hypercube(xparams),
                    !.sign_tsl = TSL_of_security_bits(
                                     wots_plus_security_bits(xparams.winternitz_parameter)),
                    !.verify_tsl = TSL_of_security_bits(
                                       verify_security_bits(xparams.winternitz_parameter))]
    /\ spc' = "encoders"
    /\ UNCHANGED <<sobj, xmssVars>>

\* signer.sign(m) in standard mode: the caller keeps the signature object
SigSign ==
    /\ xpc = "generate"
    /\ spc \in {"idle", "sign"}
    /\ signers[1].private_key.leaf_index < Pow(2, xparams.tree_height)
    /\ \E m \in Messages :
         \E out \in {xmss_sign(signers[1], xparams, m)} :
            /\ signers' = <<out.keypair>>
            /\ sobj' = [out.sig EXCEPT !.leaf_index = U64FromUsize(out.sig.leaf_index)]
            /\ scall' = [NoSigCall EXCEPT !.message = m, !.kind = out.kind]
    /\ spc' = "sign"
    /\ UNCHANGED <<xparams, xsaved, xused, xcalls, xlast, xverdict, xpc>>

\* the parts a caller starts from: those of the signature they hold, or, for
\* hypercube parameters, len chain values and tree_height nodes of zero bytes
SigParts ==
    IF xparams.use_hypercube
    THEN [leaf_index |-> U64FromUsize(0), randomness |-> ZeroHash,
          wots_signature |-> [i \in 1..xparams.len |-> ZeroHash],
          auth_path |-> [i \in 1..xparams.tree_height |-> ZeroHash]]
    ELSE sobj

SigChanges == {"none", "chain_dropped", "chain_added", "node_dropped", "node_added",
               "leaf_index_capacity", "leaf_index_wide", "randomness_short"}

\* the parts with one of them changed
SigChanged(parts, change) ==
    CASE change = "chain_dropped" ->
           [parts EXCEPT !.wots_signature = SubSeq(@, 1, Len(@) - 1)]
      [] change = "chain_added" -> [parts EXCEPT !.wots_signature = Append(@, ZeroHash)]
      [] change = "node_dropped" -> [parts EXCEPT !.auth_path = SubSeq(@, 1, Len(@) - 1)]
      [] change = "node_added" -> [parts EXCEPT !.auth_path = Append(@, ZeroHash)]
      [] change = "leaf_index_capacity" ->
           [parts EXCEPT !.leaf_index = U64FromUsize(Pow(2, xparams.tree_height))]
      [] change = "leaf_index_wide" -> [parts EXCEPT !.leaf_index[5] = 1]
      [] change = "randomness_short" -> [parts EXCEPT !.randomness = SubSeq(@, 1, HashLen - 1)]
      [] OTHER -> parts

\* XMSSSignature::new(leaf_index, randomness, wots_signature, auth_path)
SigObjectNew ==
    /\ \/ spc = "sign" /\ scall.kind = "ok"
       \/ spc = "encoders"
    /\ \E change \in SigChanges :
         \E parts \in {SigChanged(SigParts, change)} :
           \E out \in {XMSSSignature_new(parts.leaf_index, parts.randomness,
                                         parts.wots_signature, parts.auth_path)} :
              /\ sobj' = IF out.kind = "ok" THEN out.val ELSE sobj
              /\ scall' = [scall EXCEPT !.kind = out.kind]
    /\ spc' = "signature_new"
    /\ UNCHANGED xmssVars

\* the caller holds a signature object
SigHeld == spc \in {"sign", "signature_new"} /\ scall.kind = "ok"

\* XMSSSignature::from_bytes(&sig.to_bytes(), &params)
SigToBytesFromBytes ==
    /\ SigHeld
    /\ \E bytes \in {to_bytes(sobj)} :
         scall' = [scall EXCEPT !.bytes = bytes, !.parsed = from_bytes(bytes, xparams)]
    /\ spc' = "to_bytes_from_bytes"
    /\ UNCHANGED <<sobj, xmssVars>>

\* the lengths of the inputs given to from_bytes, around the length n of a
\* serialised signature
SigLengths(n) ==
    {k \in {0, 3, n - HashLen, n - 1, n + 1, n + HashLen} : k >= 0}

\* XMSSSignature::from_bytes on the serialised signature cut to or padded to
\* another length
SigFromBytes ==
    /\ SigHeld
    /\ \E ser \in {to_bytes(sobj)} :
         \E k \in SigLengths(Len(ser)) :
           \E bytes \in {[i \in 1..k |-> IF i <= Len(ser) THEN ser[i] ELSE 0]} :
              scall' = [scall EXCEPT !.bytes = bytes,
                                     !.parsed = from_bytes(bytes, xparams)]
    /\ spc' = "from_bytes"
    /\ UNCHANGED <<sobj, xmssVars>>

\* the vertex TSL::encode returns to the verifier: a vertex of layer d0 of
\* the verifier's instance, which of them is left open
SigVertices ==
    IF xparams.use_hypercube /\ scall.verify_tsl.kind = "ok"
    THEN LET tsl == scall.verify_tsl.val
         IN  {LayerVertexFromFirst(tsl.w, tsl.v, tsl.d0),
              LayerVertexFromLast(tsl.w, tsl.v, tsl.d0)}
    ELSE {<<>>}

\* public_key.verify(message, &signature, &params) on the object held, with
\* the signer's public key, or a public key of zero bytes in hypercube mode
SigVerify ==
    /\ SigHeld
    /\ \A i \in 4..8 : sobj.leaf_index[i] = 0
    /\ xparams.use_hypercube => scall.verify_tsl.kind = "ok"
    /\ \E vertex \in SigVertices, overflow_checks \in BOOLEAN :
         \E public_key \in {IF xparams.use_hypercube
                            THEN [root |-> ZeroHash, public_seed |-> ZeroHash]
                            ELSE signers[1].public_key} :
            scall' = [scall EXCEPT !.outcome =
                         XMSSPublicKey_verify(public_key, scall.message, sobj, xparams,
                                              vertex, overflow_checks)]
    /\ spc' = "verify"
    /\ UNCHANGED <<sobj, xmssVars>>

NextSig ==
    \/ SigNewWithHypercube
    \/ SigHypercubeEncoders
    \/ SigSign
    \/ SigObjectNew
    \/ SigToBytesFromBytes
    \/ SigFromBytes
    \/ SigVerify

-----------------------------------------------------------------------------
(* The tree harness: a Merkle tree is built over 2^h leaves, the            *)
(* authentication path of a leaf is taken and roots are computed from it.   *)

NoTree == [leaves |-> <<>>, public_seed |-> <<>>, nodes |-> <<>>, height |-> 0]

NoPath == [index |-> 0, nodes |-> <<>>, running |-> <<>>]

IdleTree ==
    /\ mtree = NoTree
    /\ tcall = NoPath
    /\ tpc = "idle"

\* the decimal digits of i as ASCII bytes
RECURSIVE Decimal(_)
Decimal(i) == IF i < 10 THEN <<48 + i>> ELSE Decimal(i \div 10) \o <<48 + (i % 10)>>

\* hasher.hash(format!("leaf_{}", i).as_bytes())
LeafData(i) == Hash(<<108, 101, 97, 102, 95>> \o Decimal(i))

\* the leaves a tree is built over: hashes of "leaf_i", or the values of key draw k
TreeLeaves(h, k) ==
    [i \in 1..Pow(2, h) |-> IF k = 0 THEN LeafData(i - 1) ELSE random_bytes(k, i)]

\* the public seed: [0u8; 32], or the seed of key draw k
TreeSeeds == {[j \in 1..HashLen |-> 0]} \cup {random_bytes(k, 0) : k \in 1..MaxKeys}

\* MerkleTree::build(&leaves, &public_seed, &hasher)
InitTree ==
    \E h \in 0..MaxTreeH, k \in 0..MaxKeys, public_seed \in TreeSeeds :
        \E leaves \in {TreeLeaves(h, k)} :
            \E built \in {MerkleTree_build(leaves, public_seed)} :
                /\ mtree = [leaves |-> leaves, public_seed |-> public_seed,
                           nodes |-> built.nodes, height |-> built.height]
                /\ tcall = NoPath
                /\ tpc = "build"

\* tree.authentication_path(leaf_idx) for a leaf of the tree
TreeAuthenticationPath ==
    /\ tpc \in {"build", "compute_root"}
    /\ \E leaf_idx \in 0..(Len(mtree.leaves) - 1) :
         tcall' = [index |-> leaf_idx,
                   nodes |-> authentication_path(mtree, leaf_idx),
                   running |-> <<>>]
    /\ tpc' = "authentication_path"
    /\ UNCHANGED mtree

\* AuthPath::new(nodes[..g]).compute_root(&leaves[leaf_idx], leaf_idx, &public_seed)
\* for every prefix of the path; the whole path (g = h) gives the root
TreeComputeRoot ==
    /\ tpc = "authentication_path"
    /\ tcall' = [tcall EXCEPT !.running =
                    [g \in 1..(Len(tcall.nodes) + 1) |->
                        compute_root(SubSeq(tcall.nodes, 1, g - 1),
                                     mtree.leaves[tcall.index + 1], tcall.index,
                                     mtree.public_seed)]]
    /\ tpc' = "compute_root"
    /\ UNCHANGED mtree

NextTree ==
    \/ TreeAuthenticationPath
    \/ TreeComputeRoot

-----------------------------------------------------------------------------
(* The encoder harness: an encoder is constructed and its entry points are  *)
(* called on integers, on (message, randomness) pairs and on vertices.  The *)
(* entry points take &self and keep no state, so one call is made on each   *)
(* instance.                                                                *)

NoCall == [value |-> <<>>, message |-> <<>>, randomness |-> <<>>,
           components |-> <<>>, overflow_checks |-> FALSE, index |-> 0,
           out |-> Panicked, table |-> <<>>]

IdleEnc ==
    /\ ecfg = NoEnc
    /\ ecall = NoCall
    /\ epc = "idle"

\* TSL::new, TL1C::new and TLFC::new on every configuration their with_params accept
InitEnc ==
    /\ \E w \in 2..MaxW, v \in 1..MaxV, d0 \in 0..(MaxV * MaxW), c \in 0..MaxChains :
         \/ /\ c = 0
            /\ TSLConfig_with_params(w, v, d0)
            /\ ecfg = [kind |-> "TSL", w |-> w, v |-> v, d0 |-> d0, c |-> 0]
            /\ TSL_new(ecfg)
         \/ /\ c = 0
            /\ TL1CConfig_with_params(w, v, d0)
            /\ ecfg = [kind |-> "TL1C", w |-> w, v |-> v, d0 |-> d0, c |-> 0]
            /\ total_layer_size(ecfg) > 0
         \/ /\ TLFCConfig_with_params(w, v, d0, c)
            /\ ecfg = [kind |-> "TLFC", w |-> w, v |-> v, d0 |-> d0, c |-> c]
            /\ total_layer_size(ecfg) > 0
         \/ \* a wide instance: its middle layer has more than 2^64 vertices; it
            \* is only handed to map_to_layer
            /\ c = 0
            /\ v = 1
            /\ d0 = 0
            /\ TSLConfig_with_params(WideW, WideV, (WideV * (WideW - 1)) \div 2)
            /\ ecfg = [kind |-> "TSL", w |-> WideW, v |-> WideV,
                       d0 |-> (WideV * (WideW - 1)) \div 2, c |-> 0]
            /\ TSL_new_big(ecfg)
         \/ \* a wide instance, one checksum chain per bit of a usize; it is
            \* only handed to calculate_full_checksum
            /\ c = 0
            /\ v = 1
            /\ TLFCConfig_with_params(w, WordBits, d0, WordBits)
            /\ d0 <= 1
            /\ ecfg = [kind |-> "TLFC", w |-> w, v |-> WordBits, d0 |-> d0,
                       c |-> WordBits]
            /\ total_layer_size(ecfg) > 0
    /\ ecall = NoCall
    /\ epc = "new"

\* the messages and the randomness strings handed to the encoders
EncMessages == {<<>>} \cup {<<b>> : b \in 1..MaxEncMsg}

EncRandomness == {<<>>} \cup {<<b, b>> : b \in 1..MaxEncMsg}

\* the integers handed to the mappings: 0..MaxZ, the values around the
\* number of selectable indices, and usize::MAX
Values(size) ==
    {U64FromUsize(z) : z \in (0..MaxZ) \cup {size - 1, size, size + 1}}
        \cup {[i \in 1..8 |-> 255]}

\* the integers handed to map_to_layer on the wide instance: 0..MaxZ, the
\* values around 10000, and usize::MAX
WideValues ==
    {U64FromUsize(z) : z \in (0..MaxZ) \cup {9999, 10000, 10001}}
        \cup {[i \in 1..8 |-> 255]}

\* the component vectors handed to calculate_full_checksum: every vertex of
\* [1..w]^v while the cube is small; for a wide instance the sink vertex and the
\* vectors that differ from it in the last coordinate, or in the last two
Components(cfg) ==
    IF cfg.v <= MaxV THEN AllVertices(cfg.w, cfg.v)
    ELSE {[j \in 1..cfg.v |-> IF j = cfg.v THEN a
                              ELSE IF j = cfg.v - 1 THEN b ELSE cfg.w] :
             a \in 1..cfg.w, b \in 1..cfg.w}

\* the number of indices the instance selects from: the layer size of TSL,
\* the total size of layers [0, d0] of TL1C and TLFC
SelectableIndices(cfg) ==
    IF cfg.kind = "TSL" THEN calculate_layer_size(cfg.d0, cfg.v, cfg.w)
    ELSE total_layer_size(cfg)

\* tsl.map_to_layer(z)
EncMapToLayer ==
    /\ epc = "new"
    /\ ecfg.kind = "TSL"
    /\ ecfg.v <= MaxV
    /\ \E z \in Values(SelectableIndices(ecfg)) :
         \E out \in {map_to_layer(ecfg, z)} :
            ecall' = [NoCall EXCEPT !.value = z, !.out = out]
    /\ epc' = "map_to_layer"
    /\ UNCHANGED ecfg

\* tsl.map_to_layer(z) on the wide instance
EncMapToLayerWide ==
    /\ epc = "new"
    /\ ecfg.kind = "TSL"
    /\ ecfg.v > MaxV
    /\ \E z \in WideValues :
         \E r \in {map_to_layer_big(ecfg, z)} :
            ecall' = [NoCall EXCEPT !.value = z, !.index = r.index, !.out = r.out]
    /\ epc' = "map_to_layer_wide"
    /\ UNCHANGED ecfg

\* tsl.map_to_layer(z) for every z in [0, layer size)
EncMapLayerTable ==
    /\ epc = "new"
    /\ ecfg.kind = "TSL"
    /\ ecfg.v <= MaxV
    /\ \E size \in {SelectableIndices(ecfg)} :
         ecall' = [NoCall EXCEPT !.table =
                      [i \in 1..size |-> map_to_layer(ecfg, U64FromUsize(i - 1))]]
    /\ epc' = "map_to_layer_table"
    /\ UNCHANGED ecfg

\* TSL::encode(&tsl, m, r): the Result-returning method
EncEncode ==
    /\ epc = "new"
    /\ ecfg.kind = "TSL"
    /\ ecfg.v <= MaxV
    /\ \E m \in EncMessages, r \in EncRandomness :
         \E out \in {TSL_encode(ecfg, m, r)} :
            ecall' = [NoCall EXCEPT !.message = m, !.randomness = r,
                                    !.value = HashToValue(Hash(m \o r)), !.out = out]
    /\ epc' = "encode"
    /\ UNCHANGED ecfg

\* <TSL as EncodingScheme>::encode(&tsl, m, r)
EncEncodeTrait ==
    /\ epc = "new"
    /\ ecfg.kind = "TSL"
    /\ ecfg.v <= MaxV
    /\ \E m \in EncMessages, r \in EncRandomness :
         \E out \in {TSL_encode_vertex(ecfg, m, r)} :
            ecall' = [NoCall EXCEPT !.message = m, !.randomness = r,
                                    !.value = HashToValue(Hash(m \o r)), !.out = out]
    /\ epc' = "encode_trait"
    /\ UNCHANGED ecfg

\* tl1c.map_to_top_layers(z), tlfc.map_to_top_layers(z)
EncMapToTopLayers ==
    /\ epc = "new"
    /\ ecfg.kind \in {"TL1C", "TLFC"}
    /\ ecfg.v <= MaxV
    /\ \E z \in Values(SelectableIndices(ecfg)) :
         \E out \in {map_to_top_layers(ecfg, z)} :
            ecall' = [NoCall EXCEPT !.value = z, !.out = out]
    /\ epc' = "map_to_top_layers"
    /\ UNCHANGED ecfg

\* map_to_top_layers(z) for every z in [0, total layer size)
EncMapTopLayersTable ==
    /\ epc = "new"
    /\ ecfg.kind \in {"TL1C", "TLFC"}
    /\ ecfg.v <= MaxV
    /\ \E size \in {SelectableIndices(ecfg)} :
         ecall' = [NoCall EXCEPT !.table =
                      [i \in 1..size |-> map_to_top_layers(ecfg, U64FromUsize(i - 1))]]
    /\ epc' = "map_to_top_layers_table"
    /\ UNCHANGED ecfg

\* tl1c.message_to_wots_digest(m, r), tlfc.message_to_wots_digest(m, r)
EncMessageToWotsDigest ==
    /\ epc = "new"
    /\ ecfg.kind \in {"TL1C", "TLFC"}
    /\ ecfg.v <= MaxV
    /\ \E m \in EncMessages, r \in EncRandomness, overflow_checks \in BOOLEAN :
         \E out \in {IF ecfg.kind = "TL1C"
                      THEN TL1C_message_to_wots_digest(ecfg, m, r)
                      ELSE TLFC_message_to_wots_digest(ecfg, m, r, overflow_checks)} :
            ecall' = [NoCall EXCEPT !.message = m, !.randomness = r,
                                    !.value = HashToValue(Hash(m \o r)), !.out = out,
                                    !.overflow_checks = overflow_checks]
    /\ epc' = "message_to_wots_digest"
    /\ UNCHANGED ecfg

\* tlfc.calculate_full_checksum(a) for a vertex a of [1..w]^v
EncFullChecksum ==
    /\ epc = "new"
    /\ ecfg.kind = "TLFC"
    /\ \E a \in Components(ecfg), overflow_checks \in BOOLEAN :
         \E out \in {calculate_full_checksum(ecfg, a, overflow_checks)} :
            ecall' = [NoCall EXCEPT !.components = a, !.out = out,
                                    !.overflow_checks = overflow_checks]
    /\ epc' = "calculate_full_checksum"
    /\ UNCHANGED ecfg

\* the vertices of layers [0, d0], the range of map_to_top_layers
VerticesOfTopLayers(cfg) ==
    {x \in AllVertices(cfg.w, cfg.v) : cfg.v * cfg.w - SumSeq(x) <= cfg.d0}

\* the checksum digits that message_to_wots_digest appends to the vertex a:
\* calculate_checksum of its layer (TL1C), calculate_full_checksum (TLFC)
ChecksumDigits(cfg, a, overflow_checks) ==
    IF cfg.kind = "TL1C" THEN Emit(<<calculate_checksum(calculate_layer(cfg, a))>>)
    ELSE calculate_full_checksum(cfg, a, overflow_checks)

\* the checksum digits of two distinct vertices a <= b (component-wise) of the
\* top layers; TLFC instances up to alphabet size MaxPairW
EncChecksumPair ==
    /\ epc = "new"
    /\ ecfg.kind \in {"TL1C", "TLFC"}
    /\ ecfg.v <= MaxV
    /\ ecfg.kind = "TLFC" => ecfg.w <= MaxPairW
    /\ \E a \in VerticesOfTopLayers(ecfg), overflow_checks \in BOOLEAN :
         \E b \in {x \in VerticesOfTopLayers(ecfg) :
                      x # a /\ \A i \in 1..ecfg.v : x[i] >= a[i]} :
            ecall' = [NoCall EXCEPT
                         !.components = a,
                         !.value = b,
                         !.table = <<ChecksumDigits(ecfg, a, overflow_checks),
                                     ChecksumDigits(ecfg, b, overflow_checks)>>]
    /\ epc' = "checksum_pair"
    /\ UNCHANGED ecfg

NextEnc ==
    \/ EncChecksumPair
    \/ EncMapToLayer
    \/ EncMapToLayerWide
    \/ EncMapLayerTable
    \/ EncEncode
    \/ EncEncodeTrait
    \/ EncMapToTopLayers
    \/ EncMapTopLayersTable
    \/ EncMessageToWotsDigest
    \/ EncFullChecksum

-----------------------------------------------------------------------------
(* Properties of the WOTS harness *)

\* the digit vector has the key's length and every digit lies in [0, w-1]
DigitsInRange ==
    /\ Len(wdigits) = wparams.chains
    /\ \A i \in 1..Len(wdigits) : wdigits[i] \in 0..(wparams.w - 1)

\* C9: the digit vector an encoder emits (the TSL vertex, the TL1C and TLFC
\* message_to_wots_digest), passed unchanged to sign_raw and verify of a key
\* with the encoder's w and L = signature_chains(), is signed without
\* failure and verifies true.
C9_EncodedDigitsSignAndVerify ==
    /\ (wpc = "signed" /\ wenc.kind # "none") => wsig.kind = "ok"
    /\ (wpc = "verified" /\ wenc.kind # "none") => wverdict

\* C26: WotsKeypair::sign with a TSL, TL1C or TLFC encoder and a key of
\* L = signature_chains() chains (v, v + 1, v + c) succeeds and returns L chain
\* values, the checksum chains included.
C26_SignCoversChecksum ==
    wpc = "sign" =>
        /\ wsig.kind = "ok"
        /\ Len(wsig.chains) = signature_chains(wenc)

\* C10: for every WOTS key (w, L) and every digit vector x in [0, w-1]^L,
\* sign_raw(x) succeeds and verify(x, sign_raw(x)) is true.
C10_SignRawVerifies ==
    /\ (wpc = "signed" /\ DigitsInRange) => wsig.kind = "ok"
    /\ (wpc = "verified" /\ DigitsInRange) => wverdict

\* a caller's vector with both the smallest and the largest digit was signed and verified
C10_Witness ==
    /\ wpc = "verified"
    /\ wenc.kind = "none"
    /\ wverdict
    /\ wparams.w >= 3
    /\ wparams.chains >= 2
    /\ wdigits[1] = 0
    /\ wdigits[2] = wparams.w - 1

\* C11: for every WOTS key (w, L) and digit vectors x # x' of [0, w-1]^L,
\* verify(x', sign_raw(x)) is false.
C11_OtherDigitsRejected ==
    wpc = "verified_other" => ~wverdict

\* the vector of scenario S6: only the first digit changed, the others kept
C11_Witness ==
    /\ wpc = "verified_other"
    /\ DigitsInRange
    /\ wparams.w >= 3
    /\ wparams.chains >= 2
    /\ wclaimed[1] # wdigits[1]
    /\ \A i \in 2..wparams.chains : wclaimed[i] = wdigits[i]
    /\ ~wverdict

\* C12: hash_chain(x, 0) = x and hash_chain(x, a + b) =
\* hash_chain(hash_chain(x, b), a) for every input x and all a, b >= 0.
C12_HashChainComposes ==
    wpc = "hash_chain" =>
        /\ wchain.zero = wchain.input
        /\ wchain.whole = wchain.split

\* a chain of a + b steps with a, b > 0 that differs from every shorter chain
C12_Witness ==
    /\ wpc = "hash_chain"
    /\ wchain.a >= 1
    /\ wchain.b >= 2
    /\ Len(wchain.input) = HashLen
    /\ wchain.whole # wchain.input
    /\ wchain.whole # hash_chain(wchain.input, wchain.b)
    /\ wchain.whole = wchain.split

-----------------------------------------------------------------------------
(* Properties of the encoder harness *)

\* x has v components, each in [1, w]
InCube(x) ==
    /\ Len(x) = ecfg.v
    /\ \A i \in 1..Len(x) : x[i] \in 1..ecfg.w

\* the layer of x: v * w minus the component sum
LayerOf(x) == ecfg.v * ecfg.w - SumSeq(x)

\* the vertices the last call emitted: the Ok value of a Result, the Vertex
\* returned, every entry of a table
EmittedVertices ==
    IF epc \in {"map_to_layer", "map_to_layer_wide", "encode"}
    THEN (IF ecall.out.ok THEN {ecall.out.val} ELSE {})
    ELSE IF epc \in {"encode_trait", "map_to_top_layers"}
    THEN (IF ecall.out.kind = "ok" THEN {ecall.out.val} ELSE {})
    ELSE IF epc = "map_to_layer_table"
    THEN {ecall.table[i].val : i \in {k \in 1..Len(ecall.table) : ecall.table[k].ok}}
    ELSE IF epc = "map_to_top_layers_table"
    THEN {ecall.table[i].val :
            i \in {k \in 1..Len(ecall.table) : ecall.table[k].kind = "ok"}}
    ELSE {}

\* C14: every vertex an encoder emits (TSL map_to_layer, both TSL encode entry
\* points, TL1C and TLFC map_to_top_layers) has exactly v components, each in
\* [1, w], and lies in layer d0 for TSL and in a layer <= d0 for TL1C and TLFC.
C14_EmittedVertexInLayer ==
    \A x \in EmittedVertices :
        /\ InCube(x)
        /\ ecfg.kind = "TSL" => LayerOf(x) = ecfg.d0
        /\ ecfg.kind \in {"TL1C", "TLFC"} => LayerOf(x) <= ecfg.d0

\* the trait method of a TSL instance of a layer below the top emitted a vertex
C14_Witness ==
    /\ epc = "encode_trait"
    /\ ecfg.d0 >= 2
    /\ ecfg.v >= 2
    /\ ecall.out.kind = "ok"
    /\ LayerOf(ecall.out.val) = ecfg.d0

\* C15: for a TSL instance whose layer size l fits in a machine word and every
\* integer z, map_to_layer(z) equals integer_to_vertex(z mod l, w, v, d0); the
\* values z of [0, l) map one-to-one onto the vertices of layer d0.
C15_MapToLayerIsUnrankMod ==
    /\ epc = "map_to_layer" =>
          ecall.out = integer_to_vertex(U64Mod(ecall.value, SelectableIndices(ecfg)),
                                        ecfg.w, ecfg.v, ecfg.d0)
    /\ epc = "map_to_layer_table" =>
          \A x \in vertices_in_layer(ecfg.w, ecfg.v, ecfg.d0) :
              Cardinality({i \in 1..Len(ecall.table) :
                              ecall.table[i].ok /\ ecall.table[i].val = x}) = 1

\* the vertices of [1..w]^v in layers 0..d0
TopLayerVertices ==
    {x \in AllVertices(ecfg.w, ecfg.v) : LayerOf(x) <= ecfg.d0}

\* the number of vertices of [1..w]^v in the layers below d
VerticesBelow(d) ==
    Cardinality({x \in AllVertices(ecfg.w, ecfg.v) : LayerOf(x) < d})

\* C16: for every TL1C and TLFC instance, map_to_top_layers restricted to
\* [0, |L|) is a bijection onto the vertices of layers 0..d0, |L| being the sum
\* of the layer sizes l_0..l_d0: z in the d-th cumulative block maps to the
\* vertex of rank z - (l_0 + ... + l_{d-1}) in layer d.
C16_TopLayersBijection ==
    epc = "map_to_top_layers_table" =>
        /\ Len(ecall.table) = Cardinality(TopLayerVertices)
        /\ \A x \in TopLayerVertices :
              Cardinality({i \in 1..Len(ecall.table) :
                              ecall.table[i].kind = "ok" /\ ecall.table[i].val = x}) = 1
        /\ \A i \in 1..Len(ecall.table) :
              /\ ecall.table[i].kind = "ok"
              /\ Ok(ecall.table[i].val) =
                     integer_to_vertex(i - 1 - VerticesBelow(LayerOf(ecall.table[i].val)),
                                       ecfg.w, ecfg.v, LayerOf(ecall.table[i].val))

\* C17: for every TL1C instance and every (message, randomness),
\* message_to_wots_digest returns exactly v + 1 digits, all in [1, w]; the first
\* v form a vertex of a layer d <= d0 (component sum >= v*w - d0) and the last
\* digit is d + 1.
C17_TL1CDigestShape ==
    (epc = "message_to_wots_digest" /\ ecfg.kind = "TL1C") =>
        /\ ecall.out.kind = "ok"
        /\ Len(ecall.out.val) = ecfg.v + 1
        /\ \A i \in 1..Len(ecall.out.val) : ecall.out.val[i] \in 1..ecfg.w
        /\ SumSeq(SubSeq(ecall.out.val, 1, ecfg.v)) >= ecfg.v * ecfg.w - ecfg.d0
        /\ ecall.out.val[ecfg.v + 1] = LayerOf(SubSeq(ecall.out.val, 1, ecfg.v)) + 1

\* a digest whose vertex lies below the top layer, with checksum digit w
C17_Witness ==
    /\ epc = "message_to_wots_digest"
    /\ ecfg.kind = "TL1C"
    /\ ecfg.v >= 2
    /\ ecall.out.kind = "ok"
    /\ LayerOf(SubSeq(ecall.out.val, 1, ecfg.v)) = ecfg.d0
    /\ ecfg.d0 >= 2
    /\ ecall.out.val[ecfg.v + 1] = ecfg.w

\* the positions j of [0, v) with j mod c = i, in increasing order
PositionsOf(i) ==
    [k \in 1..Cardinality({j \in 0..(ecfg.v - 1) : j % ecfg.c = i}) |->
        i + (k - 1) * ecfg.c]

\* the unranking that map_to_top_layers performs for index: integer_to_vertex
\* on the offset of index inside the cumulative block that holds it
RECURSIVE UnrankInBlock(_, _, _, _)
UnrankInBlock(cfg, index, d, cumulative) ==
    IF d > cfg.d0 THEN ErrVtx("none")
    ELSE LET InBlock(layer_size) ==
                 IF index < cumulative + layer_size
                 THEN integer_to_vertex(index - cumulative, cfg.w, cfg.v, d)
                 ELSE UnrankInBlock(cfg, index, d + 1, cumulative + layer_size)
         IN  InBlock(calculate_layer_size(d, cfg.v, cfg.w))

\* the unranking of the index that the encoder selects for the integer z
SelectedUnrank(cfg, z) ==
    IF cfg.kind = "TSL"
    THEN integer_to_vertex(U64Mod(z, SelectableIndices(cfg)), cfg.w, cfg.v, cfg.d0)
    ELSE UnrankInBlock(cfg, U64Mod(z, SelectableIndices(cfg)), 0, 0)

\* whether the call returned a vertex or a digit vector to its caller
ReturnedOutput(out) ==
    IF "kind" \in DOMAIN out THEN out.kind = "ok" ELSE out.ok

\* C28: for every TL1C instance and any two distinct vertices a, a' of layers
\* [0, d0] with a'_i >= a_i for every i, the checksum digit of a' is strictly
\* smaller than that of a, so the digit vector (a', C') is not component-wise
\* >= (a, C).
C28_TL1CChecksumDecreases ==
    (epc = "checksum_pair" /\ ecfg.kind = "TL1C") =>
        /\ ecall.table[1].kind = "ok" /\ ecall.table[2].kind = "ok"
        /\ ecall.table[2].val[1] < ecall.table[1].val[1]

\* two vertices two layers apart
C28_Witness ==
    /\ epc = "checksum_pair"
    /\ ecfg.kind = "TL1C"
    /\ LayerOf(ecall.components) = LayerOf(ecall.value) + 2
    /\ ecall.table[1].val[1] = ecall.table[2].val[1] + 2

\* C27: for every TLFC instance and any two distinct vertices a, a' of layers
\* [0, d0] with a'_i >= a_i for every i, at least one checksum digit of a' is
\* strictly smaller than the corresponding digit of a, so no TLFC digit vector
\* is component-wise >= another distinct one.
C27_TLFCChecksumDecreases ==
    (epc = "checksum_pair" /\ ecfg.kind = "TLFC") =>
        /\ ecall.table[1].kind = "ok" /\ ecall.table[2].kind = "ok"
        /\ \E i \in 1..ecfg.c : ecall.table[2].val[i] < ecall.table[1].val[i]

\* C19: when integer_to_vertex fails inside an encoder's mapping, the entry
\* point (TSL, TL1C, TLFC) reports the failure and emits no vertex or digit
\* vector: neither the sink vertex nor the vertex of another index is
\* substituted.
C19_UnrankFailureReported ==
    epc \in {"map_to_layer", "encode", "encode_trait", "map_to_top_layers",
             "message_to_wots_digest"} =>
        (~SelectedUnrank(ecfg, ecall.value).ok => ~ReturnedOutput(ecall.out))

\* C20: when the TSL layer size l does not fit in a machine word, map_to_layer
\* selects the index z mod l for the input integer z (which is z itself, as
\* z < 2^64 <= l); it does not restrict the selectable indices to a smaller
\* range.
C20_WideLayerIndexIsValueModSize ==
    epc = "map_to_layer_wide" =>
        (~BigToUsize(calculate_layer_size_big(ecfg.d0, ecfg.v, ecfg.w)).some =>
            BigFromUsize(ecall.index) = BigTrim(ecall.value))

\* 2^e mod w, by repeated doubling
RECURSIVE PowTwoMod(_, _)
PowTwoMod(e, w) == IF e = 0 THEN 1 % w ELSE (2 * PowTwoMod(e - 1, w)) % w

\* the weighted sum of digit i reduced modulo w, term by term
WeightedSumMod(a, i) ==
    SumSeq([k \in 1..Len(PositionsOf(i)) |->
               (PowTwoMod(PositionsOf(i)[k] % ecfg.c, ecfg.w)
                   * (ecfg.w - a[PositionsOf(i)[k] + 1])) % ecfg.w]) % ecfg.w

\* C18: for every TLFC instance (w, c) and every a in [1..w]^v,
\* calculate_full_checksum returns exactly c digits, digit i (0 <= i < c) being
\* ((sum over j with j mod c = i of 2^(j mod c) * (w - a_j)) mod w) + 1, so
\* every checksum digit lies in [1, w].
C18_FullChecksumDigits ==
    epc = "calculate_full_checksum" =>
        /\ ecall.out.kind = "ok"
        /\ Len(ecall.out.val) = ecfg.c
        /\ \A i \in 0..(ecfg.c - 1) :
              /\ ecall.out.val[i + 1] = WeightedSumMod(ecall.components, i) + 1
              /\ ecall.out.val[i + 1] \in 1..ecfg.w

-----------------------------------------------------------------------------
(* Properties of the tree harness *)

\* the index, at height g, of the node on the path from leaf k to the root
PathIndex(k, g) == k \div Pow(2, g)

\* the other child of the parent of node j
OtherChild(j) == CHOOSE s \in {j - 1, j + 1} : s >= 0 /\ s \div 2 = j \div 2

\* C13: for a tree over 2^h leaves and every leaf index k, authentication_path(k)
\* has exactly h nodes, node g being the sibling at height g of the path from
\* leaf k to the root; compute_root on leaf k, index k and the same public seed
\* returns the root, the running node at height g being the tree's node on that
\* path (bit g of k places it left or right).
C13_AuthPathLeadsToRoot ==
    /\ tpc \in {"authentication_path", "compute_root"} =>
          /\ Len(tcall.nodes) = mtree.height
          /\ Len(mtree.leaves) = Pow(2, mtree.height)
          /\ \A g \in 0..(mtree.height - 1) :
                tcall.nodes[g + 1] =
                    mtree.nodes[g + 1][OtherChild(PathIndex(tcall.index, g)) + 1]
    /\ tpc = "compute_root" =>
          /\ tcall.running[mtree.height + 1] = tree_root(mtree)
          /\ \A g \in 0..mtree.height :
                tcall.running[g + 1] = mtree.nodes[g + 1][PathIndex(tcall.index, g) + 1]

\* a leaf whose index has both a 0 bit and a 1 bit, so that the running node is
\* a left child at one height and a right child at another
C13_Witness ==
    /\ tpc = "compute_root"
    /\ mtree.height >= 2
    /\ tcall.index % 2 = 1
    /\ (tcall.index \div 2) % 2 = 0
    /\ tcall.running[mtree.height + 1] = tree_root(mtree)

-----------------------------------------------------------------------------
(* Properties of the XMSS harness *)

\* the number of leaves: 1 << tree_height
Capacity == Pow(2, xparams.tree_height)

LeafIndex(s) == signers[s].private_key.leaf_index

\* C5: across sign, export_state and restore on signers derived from one key
\* generation, no leaf index is used to sign two different messages (a signer
\* restored from a regressed state refuses to sign).
C5_NoLeafIndexSignsTwoMessages ==
    \A p \in xused, q \in xused : p[1] = q[1] => p[2] = q[2]

\* C24: restore(params, K.export_state()) after j < 2^h signs of K yields a
\* signer with the same next-index j, seeds and root as K at the export; every
\* signature it then produces verifies under K's original public key and
\* continues the index sequence (leaf index j, next-index j + 1).
C24_RestoreContinues ==
    /\ \A s \in 1..Len(signers) : signers[s].public_key = signers[1].public_key
    /\ xpc = "restore" =>
         export_state(signers[Len(signers)].private_key) \in xsaved
    /\ (xpc = "sign" /\ xlast.signer > 1 /\ xlast.pre < Capacity) =>
         /\ xlast.kind = "ok"
         /\ xlast.sig.leaf_index = xlast.pre
         /\ LeafIndex(xlast.signer) = xlast.pre + 1
    /\ (xpc = "verify" /\ xlast.signer > 1) =>
         /\ xverdict
         /\ xmss_verify(signers[1].public_key, xlast.message, xlast.sig, xparams)

\* a signer restored from the state exported after one sign has signed at
\* index 1 and the signature was verified
C24_Witness ==
    /\ xpc = "verify"
    /\ xlast.signer > 1
    /\ xlast.pre = 1
    /\ xlast.sig.leaf_index = 1
    /\ LeafIndex(xlast.signer) = 2
    /\ xverdict

C7_SignAdvancesByOne ==
    /\ (xpc = "sign" /\ xlast.kind = "ok") =>
         /\ xlast.sig.leaf_index = xlast.pre
         /\ LeafIndex(xlast.signer) = xlast.pre + 1
    /\ xpc = "sign" => LeafIndex(xlast.signer) >= xlast.pre

\* a signer that had already advanced signed once more
C7_Witness ==
    /\ xpc = "sign"
    /\ xlast.kind = "ok"
    /\ xlast.pre > 0
    /\ LeafIndex(xlast.signer) = xlast.pre + 1

\* C8: with XMSSParams::new(h, w, len), for every message and every
\* next-index k < 2^h the signature sign returns is accepted by verify under
\* the keypair's public key, the same message and the same parameters.
C8_SignaturesVerify == xpc = "verify" => xverdict

\* the signature of the last leaf on a non-empty message, w not a power of two
C8_Witness ==
    /\ xpc = "verify"
    /\ xverdict
    /\ xlast.sig.leaf_index = Capacity - 1
    /\ xlast.message # <<>>
    /\ xparams.winternitz_parameter = 3
    /\ xparams.len >= 2

\* C30: for the parameters built by XMSSParams::new_with_hypercube(h, s, true)
\* with s in {128, 160, 256}, construction succeeds, and the TSL encoder of
\* the signer and the one of the verifier are constructed and have alphabet
\* size and dimension equal to the winternitz_parameter and len of the
\* parameters (which are also the w and chains of the signer's WOTS keys).
C30_HypercubeEncodersMatchParams ==
    /\ spc = "new_with_hypercube" => scall.kind = "ok"
    /\ spc = "encoders" =>
         /\ scall.sign_tsl.kind = "ok"
         /\ scall.verify_tsl.kind = "ok"
         /\ scall.sign_params.w = xparams.winternitz_parameter
         /\ scall.sign_params.chains = xparams.len
         /\ scall.sign_tsl.val.w = xparams.winternitz_parameter
         /\ scall.sign_tsl.val.v = xparams.len
         /\ scall.verify_tsl.val.w = xparams.winternitz_parameter
         /\ scall.verify_tsl.val.v = xparams.len

\* C23: for a signature with len chain values and tree_height path nodes of
\* 32 bytes, to_bytes is 4 + 32 + len*32 + tree_height*32 bytes: the leaf
\* index big-endian, the randomness, the chain values in index order, the
\* path nodes from leaf to root; from_bytes of it returns the same leaf index,
\* randomness, chain values and path; and from_bytes returns an error for an
\* input of any other length.
C23_SignatureBytesRoundTrip ==
    LET n == HashLen
        L == xparams.len
        h == xparams.tree_height
        expected == 4 + n + L * n + h * n
    IN  /\ ( /\ spc = "to_bytes_from_bytes"
             /\ Len(sobj.wots_signature) = L
             /\ Len(sobj.auth_path) = h ) =>
               /\ Len(scall.bytes) = expected
               /\ SubSeq(scall.bytes, 5, 4 + n) = sobj.randomness
               /\ \A i \in 1..L :
                    SubSeq(scall.bytes, 4 + n + (i - 1) * n + 1, 4 + n + i * n)
                      = sobj.wots_signature[i]
               /\ \A i \in 1..h :
                    SubSeq(scall.bytes, 4 + n + L * n + (i - 1) * n + 1,
                           4 + n + L * n + i * n) = sobj.auth_path[i]
               /\ scall.parsed.ok
               /\ scall.parsed.val = sobj
               /\ \A i \in 1..8 :
                    sobj.leaf_index[i]
                      = (IF i <= 4 THEN scall.bytes[5 - i] ELSE 0)
        /\ ( /\ spc \in {"to_bytes_from_bytes", "from_bytes"}
             /\ Len(scall.bytes) # expected ) => ~scall.parsed.ok

\* C21: verify returns accept or reject for every signature object it is
\* given, in standard and in hypercube mode, whatever the number of chain
\* values, the length of the authentication path and the leaf index; it never
\* aborts.
C21_VerifyNeverAborts ==
    spc = "verify" => scall.outcome \in {"accept", "reject"}

-----------------------------------------------------------------------------

(* The specifications: one harness runs, the other two stay idle *)

Init == InitMap /\ IdleWots /\ IdleXmss /\ IdleTree /\ IdleEnc /\ IdleSig

Next == NextMap /\ UNCHANGED <<wotsVars, xmssVars, treeVars, encVars, sigVars>>

Spec == Init /\ [][Next]_vars

InitWots ==
    /\ IdleMap
    /\ IdleXmss
    /\ IdleTree
    /\ IdleEnc
    /\ IdleSig
    /\ (InitWotsRaw \/ InitWotsTSL \/ InitWotsTL1C \/ InitWotsTLFC)

SpecWots == InitWots /\ [][NextWots /\ UNCHANGED <<mapVars, xmssVars, treeVars, encVars, sigVars>>]_vars

InitXmss == IdleMap /\ IdleWots /\ IdleTree /\ IdleEnc /\ IdleSig /\ InitXmssKey

SpecXmss == InitXmss /\ [][NextXmss /\ UNCHANGED <<mapVars, wotsVars, treeVars, encVars, sigVars>>]_vars

SpecTwin == InitXmss /\ [][NextTwin /\ UNCHANGED <<mapVars, wotsVars, treeVars, encVars, sigVars>>]_vars

InitTrees == IdleMap /\ IdleWots /\ IdleXmss /\ IdleEnc /\ IdleSig /\ InitTree

SpecTree == InitTrees /\ [][NextTree /\ UNCHANGED <<mapVars, wotsVars, xmssVars, encVars, sigVars>>]_vars

InitEncoders == IdleMap /\ IdleWots /\ IdleXmss /\ IdleTree /\ IdleSig /\ InitEnc

SpecEnc ==
    InitEncoders /\ [][NextEnc /\ UNCHANGED <<mapVars, wotsVars, xmssVars, treeVars, sigVars>>]_vars

InitSig ==
    /\ IdleMap
    /\ IdleWots
    /\ IdleTree
    /\ IdleEnc
    /\ IdleSig
    /\ (IdleXmss \/ InitXmssKey)

SpecSig == InitSig /\ [][NextSig /\ UNCHANGED <<mapVars, wotsVars, treeVars, encVars>>]_vars

=============================================================================
